---- MODULE Spec2Model ----
(***************************************************************************)
(* Slidev tool server (index.js) and its PDF export wrapper                *)
(* (export-wrapper.js).                                                    *)
(*                                                                         *)
(* Text is modelled as a sequence of tokens: a token is a piece of text    *)
(* that the code never splits ("---", "\n", "layout:", a word).  Template  *)
(* literals of the source become token sequences, so a pattern that spans  *)
(* the boundary between a literal and a caller-supplied string is found by *)
(* the same scan that finds it inside one string.                          *)
(*                                                                         *)
(* A path is a sequence of segments, a segment a sequence of tokens; an    *)
(* absolute path starts with the segment <<"/">>.                          *)
(***************************************************************************)
EXTENDS Integers, Sequences, FiniteSets, TLC

VARIABLES
    req,               \* the build_complete_presentation input of this run
    presentationName,  \* index.js: let presentationName
    files,             \* the markdown files on disk: path -> text
    dirs,              \* the directories on disk
    response,          \* what the last tool call gave its caller
    builds,            \* the build calls the server has handled, in their order
    pc,                \* where the export call stands
    via,               \* who called exportToPDF: the tool handler or the command line
    h,                 \* the locals of the export_to_pdf handler
    w,                 \* the locals of exportToPDF
    wresult,           \* what exportToPDF returned
    cwd,               \* process.cwd()
    pdfs,              \* the PDF files on disk
    pkgJson,           \* <renderer project>/package.json exists
    installed,         \* the packages require.resolve finds in the renderer project
    trace,             \* the steps of the export call so far, with their outcomes
    database,          \* PrecursorApp: the active rows of the tasks table, by id
    projects,          \* AppState.projects
    selectedProject,   \* AppState.selectedProject
    tasks,             \* AppState.tasks
    errorMessage,      \* AppState.errorMessage
    isLoading,         \* AppState.isLoading
    background,        \* the blocks given to DispatchQueue.global, not yet finished
    mainQueue,         \* the blocks waiting on DispatchQueue.main, in their order
    clicks,            \* the user's actions on PrecursorApp so far
    arguments,         \* AgentResultsApp: CommandLine.arguments
    inputData,         \* AgentResultsApp: what the --input file holds
    resultsState       \* AgentResultsApp: the AgentResultsState the window shows

deckVars == <<req, presentationName, files, dirs, response, builds>>
exportVars == <<pc, via, h, w, wresult, cwd, pdfs, pkgJson, installed, trace>>
precursorVars ==
    <<database, projects, selectedProject, tasks, errorMessage, isLoading,
      background, mainQueue, clicks>>
resultsVars == <<arguments, inputData, resultsState>>
appsVars == <<precursorVars, resultsVars>>
vars == <<deckVars, exportVars, appsVars>>

----------------------------------------------------------------------------
(* Bounds *)

MaxSlides == 2

\* The build calls of a run of the server.
MaxBuilds == 3

\* The build calls the server handles beside one export call.
MaxServerBuilds == 2

\* The user's actions on PrecursorApp, its launch among them.
MaxClicks == 4

----------------------------------------------------------------------------
(* Swift values, and the two desktop apps before they are launched *)

\* An optional that holds no value.
Nil == "<nil>"

\* enum TaskStatus, and the section Reject writes.
Pending == "Agent Completed Tasks (Pending Review)"
Accepted == "Accepted Agent Completed Tasks"
Rejected == "Rejected Agent Completed Tasks"

\* The rows of scratchpad_entries with status = 'active'; a later row has
\* the greater id.
TaskIds == {1, 2, 3}

ProjectNames == <<"alpha", "beta">>

TasksTable ==
    [id \in TaskIds |->
        [project_name |-> IF id = 3 THEN "beta" ELSE "alpha", section |-> Pending]]

\* AppState as it is constructed, and nothing given to a dispatch queue.
AppStateInit ==
    /\ projects = <<>>
    /\ selectedProject = Nil
    /\ tasks = <<>>
    /\ errorMessage = Nil
    /\ isLoading = FALSE
    /\ background = <<>>
    /\ mainQueue = <<>>
    /\ clicks = 0

\* No file at the path; a payload that is nil, which is also the window's
\* state before there is a window.
NoFile == [kind |-> "none", projectName |-> Nil, results |-> <<>>]
NoPayload == [projectName |-> Nil, results |-> <<>>]

AppsNotRunning ==
    /\ database = TasksTable
    /\ AppStateInit
    /\ arguments = <<>>
    /\ inputData = NoFile
    /\ resultsState = NoPayload

----------------------------------------------------------------------------
(* JavaScript values *)

\* An optional string that was not given (undefined / null).
Undefined == <<"<undefined>">>

\* if (s): neither undefined nor the empty string.
Truthy(s) == s # Undefined /\ s # <<>>

IsSpace(t) == t \in {" ", "\n"}

RECURSIVE TrimStart(_)
TrimStart(s) == IF s # <<>> /\ IsSpace(Head(s)) THEN TrimStart(Tail(s)) ELSE s

RECURSIVE TrimEnd(_)
TrimEnd(s) ==
    IF s # <<>> /\ IsSpace(s[Len(s)]) THEN TrimEnd(SubSeq(s, 1, Len(s) - 1)) ELSE s

\* String.prototype.trim
Trim(s) == TrimEnd(TrimStart(s))

\* Does text s hold pattern p at position i (1-based)?
MatchAt(s, p, i) ==
    /\ i + Len(p) - 1 <= Len(s)
    /\ \A k \in 1..Len(p) : s[i + k - 1] = p[k]

\* String.prototype.includes
Includes(s, p) == \E i \in 1..Len(s) : MatchAt(s, p, i)

\* The number of matches of s.match(/p/g): leftmost, non-overlapping.
RECURSIVE CountFrom(_, _, _)
CountFrom(s, p, i) ==
    IF i > Len(s) THEN 0
    ELSE IF MatchAt(s, p, i) THEN 1 + CountFrom(s, p, i + Len(p))
    ELSE CountFrom(s, p, i + 1)

\* /---\nlayout:/g
SlidePattern == <<"---", "\n", "layout:">>

\* slideMatches with the pattern /---/g.
slideMatchesEveryRule(markdown) == CountFrom(markdown, <<"---">>, 1)

\* markdown.match(/---\nlayout:/g) || []
slideMatches(markdown) == CountFrom(markdown, SlidePattern, 1)

\* slideMatches.length || 1
slideCount(markdown) == IF slideMatches(markdown) = 0 THEN 1 ELSE slideMatches(markdown)

----------------------------------------------------------------------------
(* Paths *)

Root == <<"/">>

IsAbsolute(p) == p # <<>> /\ Head(p) = Root

\* path.join(a, b, ...): the segments of b follow those of a.
join(a, b) == a \o (IF IsAbsolute(b) THEN Tail(b) ELSE b)

\* getDefaultSlidevDir(): <user data dir>/precursor/slides
getDefaultSlidevDir == <<Root, <<"home">>, <<"precursor">>, <<"slides">>>>

\* name + ".md" as one path segment
MdFileName(name) == <<name \o <<".md">>>>

----------------------------------------------------------------------------
(* build_complete_presentation: the markdown of a deck *)

\* LayoutOr that never takes the layout of the slide.
LayoutOrDefaultOnly(slide, dflt) == dflt

\* slide.layout && slide.layout.trim().length > 0 ? slide.layout : dflt
LayoutOr(slide, dflt) ==
    IF Truthy(slide.layout) /\ Len(Trim(slide.layout)) > 0 THEN slide.layout ELSE dflt

\* typeof input.theme === "string" && input.theme.trim().length > 0
themeValue(input) ==
    IF input.theme # Undefined /\ Len(Trim(input.theme)) > 0 THEN input.theme
    ELSE Undefined

\* firstSlideHeader that writes the author line whether an author is given or not.
firstSlideHeaderAlwaysAuthor(input, slide) ==
    <<"---", "\n">>
    \o <<"layout:", " ">> \o LayoutOr(slide, <<"cover">>) \o <<"\n">>
    \o (IF Truthy(themeValue(input))
        THEN <<"theme:", " ">> \o themeValue(input) \o <<"\n">> ELSE <<>>)
    \o <<"title:", " ", "dq">> \o input.title \o <<"dq", "\n">>
    \o <<"author:", " ", "dq">> \o input.author \o <<"dq", "\n">>
    \o <<"---", "\n">>

firstSlideHeader(input, slide) ==
    <<"---", "\n">>
    \o <<"layout:", " ">> \o LayoutOr(slide, <<"cover">>) \o <<"\n">>
    \o (IF Truthy(themeValue(input))
        THEN <<"theme:", " ">> \o themeValue(input) \o <<"\n">> ELSE <<>>)
    \o <<"title:", " ", "dq">> \o input.title \o <<"dq", "\n">>
    \o (IF Truthy(input.author)
        THEN <<"author:", " ", "dq">> \o input.author \o <<"dq", "\n">> ELSE <<>>)
    \o <<"---", "\n">>

\* laterSlideHeader without the separator before the layout line.
laterSlideHeaderNoSeparator(slide) ==
    <<"\n">> \o <<"layout:", " ">> \o LayoutOr(slide, <<"default">>) \o <<"\n", "---", "\n">>

laterSlideHeader(slide) ==
    <<"\n", "---", "\n">> \o <<"layout:", " ">> \o LayoutOr(slide, <<"default">>)
    \o <<"\n", "---", "\n">>

\* slideBody that fences the code whenever there is code, language or not.
slideBodyFenceForCode(slide) ==
    (IF Truthy(slide.title) THEN <<"\n", "#", " ">> \o slide.title \o <<"\n">> ELSE <<>>)
    \o (IF Truthy(slide.content) THEN <<"\n">> \o slide.content \o <<"\n">> ELSE <<>>)
    \o (IF Truthy(slide.code)
        THEN <<"\n", "~~~">> \o slide.codeLanguage \o <<"\n">> \o slide.code
             \o <<"\n", "~~~", "\n">>
        ELSE <<>>)

\* if (slide.title) ...; if (slide.content) ...; if (slide.code && slide.codeLanguage) ...
slideBody(slide) ==
    (IF Truthy(slide.title) THEN <<"\n", "#", " ">> \o slide.title \o <<"\n">> ELSE <<>>)
    \o (IF Truthy(slide.content) THEN <<"\n">> \o slide.content \o <<"\n">> ELSE <<>>)
    \o (IF Truthy(slide.code) /\ Truthy(slide.codeLanguage)
        THEN <<"\n", "~~~">> \o slide.codeLanguage \o <<"\n">> \o slide.code
             \o <<"\n", "~~~", "\n">>
        ELSE <<>>)

\* One turn of input.slides.forEach((slide, index) => ...); index is 0-based.
slideMarkdown(input, slide, index) ==
    (IF index = 0 THEN firstSlideHeader(input, slide) ELSE laterSlideHeader(slide))
    \o slideBody(slide)

RECURSIVE markdownUpTo(_, _)
markdownUpTo(input, n) ==
    IF n = 0 THEN <<>>
    ELSE markdownUpTo(input, n - 1) \o slideMarkdown(input, input.slides[n], n - 1)

\* The text the handler has in `markdown` after the forEach.
buildMarkdown(input) == markdownUpTo(input, Len(input.slides))

----------------------------------------------------------------------------
(* Tool results *)

NoResponse == [kind |-> "none", success |-> FALSE, message |-> <<>>,
               slideCount |-> 0, path |-> <<>>]

\* A handler returned structuredContent.
Returned(ok, msg, n, p) ==
    [kind |-> "returned", success |-> ok, message |-> msg, slideCount |-> n, path |-> p]

\* A handler's promise rejected: the error left the handler.
Threw(msg) ==
    [kind |-> "threw", success |-> FALSE, message |-> msg, slideCount |-> 0, path |-> <<>>]

\* process.env.SLIDEV_DIR && process.env.SLIDEV_DIR.length > 0 ? ... : getDefaultSlidevDir()
presentationsDir == getDefaultSlidevDir

\* BuildHandler with the directory made before the slides are looked at.
BuildHandlerMkdirFirst(input, mkdirOk, writeOk) ==
    LET filePath == join(presentationsDir, MdFileName(input.name)) IN
    /\ presentationName' = input.name
    /\ IF presentationsDir \notin dirs /\ ~mkdirOk
       THEN /\ response' = Threw(<<"EACCES", "mkdir">>)
            /\ UNCHANGED <<files, dirs>>
       ELSE IF Len(input.slides) = 0
       THEN /\ response' = Returned(FALSE, <<"No slides provided.">>, 0, <<>>)
            /\ dirs' = dirs \cup {presentationsDir}
            /\ UNCHANGED files
       ELSE IF ~writeOk
       THEN /\ response' = Threw(<<"EACCES", "open">>)
            /\ dirs' = dirs \cup {presentationsDir}
            /\ UNCHANGED files
       ELSE /\ dirs' = dirs \cup {presentationsDir}
            /\ files' = [p \in DOMAIN files \cup {filePath} |->
                            IF p = filePath THEN buildMarkdown(input) ELSE files[p]]
            /\ response' = Returned(TRUE, <<"created">>, Len(input.slides), filePath)

\* BuildHandler that leaves a file alone that is already there.
BuildHandlerKeepsFirst(input, mkdirOk, writeOk) ==
    LET filePath == join(presentationsDir, MdFileName(input.name)) IN
    /\ presentationName' = input.name
    /\ IF Len(input.slides) = 0
       THEN /\ response' = Returned(FALSE, <<"No slides provided.">>, 0, <<>>)
            /\ UNCHANGED <<files, dirs>>
       ELSE IF presentationsDir \notin dirs /\ ~mkdirOk
       THEN /\ response' = Threw(<<"EACCES", "mkdir">>)
            /\ UNCHANGED <<files, dirs>>
       ELSE IF ~writeOk
       THEN /\ response' = Threw(<<"EACCES", "open">>)
            /\ dirs' = dirs \cup {presentationsDir}
            /\ UNCHANGED files
       ELSE /\ dirs' = dirs \cup {presentationsDir}
            /\ files' = [p \in DOMAIN files \cup {filePath} |->
                            IF p \in DOMAIN files THEN files[p] ELSE buildMarkdown(input)]
            /\ response' = Returned(TRUE, <<"created">>, Len(input.slides), filePath)

\* The handler of build_complete_presentation.  It runs without an await, so it
\* is one step.  mkdirOk and writeOk are the outcomes of mkdirSync and
\* writeFileSync, which throw when the file system refuses.
BuildHandler(input, mkdirOk, writeOk) ==
    LET filePath == join(presentationsDir, MdFileName(input.name)) IN
    /\ presentationName' = input.name
    /\ IF Len(input.slides) = 0
       THEN /\ response' = Returned(FALSE, <<"No slides provided.">>, 0, <<>>)
            /\ UNCHANGED <<files, dirs>>
       ELSE IF presentationsDir \notin dirs /\ ~mkdirOk
       THEN /\ response' = Threw(<<"EACCES", "mkdir">>)
            /\ UNCHANGED <<files, dirs>>
       ELSE IF ~writeOk
       THEN /\ response' = Threw(<<"EACCES", "open">>)
            /\ dirs' = dirs \cup {presentationsDir}
            /\ UNCHANGED files
       ELSE /\ dirs' = dirs \cup {presentationsDir}
            /\ files' = [p \in DOMAIN files \cup {filePath} |->
                            IF p = filePath THEN buildMarkdown(input) ELSE files[p]]
            /\ response' = Returned(TRUE, <<"created">>, Len(input.slides), filePath)

----------------------------------------------------------------------------
(* More of path and of String *)

\* path.resolve(base, p): an absolute p stands for itself.
resolve(base, p) == IF IsAbsolute(p) THEN p ELSE base \o p

dirname(p) == SubSeq(p, 1, Len(p) - 1)

\* path.basename(p): the tokens of the last segment
basename(p) == p[Len(p)]

\* name.replace(/\.md$/i, '')
stripMd(name) ==
    IF name # <<>> /\ name[Len(name)] \in {".md", ".MD"}
    THEN SubSeq(name, 1, Len(name) - 1) ELSE name

\* inputFile.replace(/^presentations\//, '')
stripPresentations(p) ==
    IF Len(p) > 1 /\ Head(p) = <<"presentations">> THEN Tail(p) ELSE p

\* A path written out as text: its segments with "/" between them.
RECURSIVE PathText(_)
PathText(p) ==
    IF p = <<>> THEN <<>>
    ELSE IF Head(p) = Root THEN <<"/">> \o PathText(Tail(p))
    ELSE IF Len(p) = 1 THEN Head(p)
    ELSE Head(p) \o <<"/">> \o PathText(Tail(p))

\* One token of text in lower case.
LowerToken(t) ==
    CASE t = "Playwright" -> "playwright"
      [] t = "ENOENT" -> "enoent"
      [] t = "EACCES" -> "eacces"
      [] t = ".MD" -> ".md"
      [] t = "None" -> "none"
      [] OTHER -> t

\* String.prototype.toLowerCase
toLowerCase(s) == [k \in DOMAIN s |-> LowerToken(s[k])]

----------------------------------------------------------------------------
(* The machine the server runs on *)

\* The directory the server was started in.
LaunchDir == <<Root, <<"work">>>>

\* resolve(__dirname) of export-wrapper.js
wrapperRoot == <<Root, <<"app">>, <<"slides">>>>

\* getDefaultCanonicalDir(): <user data dir>/precursor/slidev_project
getDefaultCanonicalDir == <<Root, <<"home">>, <<"precursor">>, <<"slidev_project">>>>

\* process.env.SLIDEV_DIR is not set: the renderer project is the default one.
canonicalRoot == getDefaultCanonicalDir

slidesDir == join(canonicalRoot, <<<<"slides">>>>)

\* The decks on disk when an export is asked for.
SeriphDeck ==
    [name |-> <<"demo">>, title |-> <<"Demo">>, theme |-> <<"seriph">>, author |-> Undefined,
     slides |-> <<[layout |-> <<"cover">>, title |-> <<"Hello">>, content |-> Undefined,
                   code |-> Undefined, codeLanguage |-> Undefined],
                  [layout |-> Undefined, title |-> <<"World">>, content |-> <<"-", " ", "a">>,
                   code |-> Undefined, codeLanguage |-> Undefined]>>]

PlainDeck == [SeriphDeck EXCEPT !.theme = Undefined, !.name = <<"talk">>]

DemoMd == join(getDefaultSlidevDir, <<<<"demo", ".md">>>>)
TalkMd == <<Root, <<"decks">>, <<"talk", ".md">>>>
WorkMd == join(LaunchDir, <<<<"deck", ".md">>>>)
WrapperMd == join(wrapperRoot, <<<<"presentations">>, <<"intro", ".md">>>>)

DiskInit ==
    [p \in {DemoMd, TalkMd, WorkMd, WrapperMd} |->
        IF p \in {DemoMd, WrapperMd} THEN buildMarkdown(SeriphDeck) ELSE buildMarkdown(PlainDeck)]

DirsInit == {getDefaultSlidevDir, dirname(TalkMd), LaunchDir, dirname(WrapperMd)}

\* crypto.createHash('sha1').update(mdPath).digest('hex').slice(0, 8): eight
\* hexadecimal digits, one token; the paths of the model hash apart.
mdHash(mdPath) ==
    CASE mdPath = DemoMd -> "3f2a9c01"
      [] mdPath = TalkMd -> "b7710e4d"
      [] mdPath = WorkMd -> "05c1d2aa"
      [] mdPath = WrapperMd -> "e90b6f38"
      [] OTHER -> "da39a3ee"

\* existsSync(p), for a markdown file and for a directory
mdExists(p) == resolve(cwd, p) \in DOMAIN files
dirExists(p) == resolve(cwd, p) \in dirs

----------------------------------------------------------------------------
(* export_to_pdf: the handler of index.js *)

PlaywrightRemedy ==
    <<"PDF export failed: ", "Playwright", " dependency issue. Run: npm install -D ",
      "playwright", "-chromium">>

CliRemedy ==
    <<"PDF export failed: ", "Slidev CLI not found. Run: npm install -g @slidev/cli",
      " (or add it to your project devDependencies).">>

\* The catch block of the handler: the message it returns for an error.
failureMessage(message) ==
    IF Includes(toLowerCase(message), <<"playwright">>) THEN PlaywrightRemedy
    ELSE IF Includes(message, <<"ENOENT">>) \/ Includes(message, <<"command not found">>)
    THEN CliRemedy
    ELSE <<"PDF export failed: ">> \o message

\* catch (error) { ... return { structuredContent: payload } }
HandlerCatch(message) ==
    /\ response' = Returned(FALSE, failureMessage(message), 0, <<>>)
    /\ pc' = "done"

\* A path argument that was not given (undefined, null, empty or blank).
NoPath == <<>>

\* input.inputPath && String(input.inputPath).trim().length > 0
Given(p) == p # NoPath

\* The first stretch of the handler, up to its first await: the markdown input
\* is resolved, or the error is thrown into the catch block.
ExportHandlerResolve(input) ==
    /\ pc = "idle"
    /\ via' = "tool"
    /\ IF Given(input.inputPath)
       THEN IF ~mdExists(input.inputPath)
            THEN /\ HandlerCatch(<<"Input markdown not found: ">> \o PathText(input.inputPath))
                 /\ h' = [input |-> input, mdPath |-> <<>>, outputPath |-> <<>>]
            ELSE /\ h' = [input |-> input, mdPath |-> input.inputPath, outputPath |-> <<>>]
                 /\ pc' = "h_output"
                 /\ UNCHANGED response
       ELSE LET name == IF Truthy(input.name) THEN input.name ELSE presentationName
                candidate == join(presentationsDir, MdFileName(name))
            IN  IF ~Truthy(name)
                THEN /\ HandlerCatch(<<"No inputPath provided and no presentation name available.">>)
                     /\ h' = [input |-> input, mdPath |-> <<>>, outputPath |-> <<>>]
                ELSE IF ~mdExists(candidate)
                THEN /\ HandlerCatch(<<"Presentation file not found: ">> \o PathText(candidate))
                     /\ h' = [input |-> input, mdPath |-> <<>>, outputPath |-> <<>>]
                ELSE /\ h' = [input |-> input, mdPath |-> candidate, outputPath |-> <<>>]
                     /\ pc' = "h_output"
                     /\ UNCHANGED response
    /\ UNCHANGED <<appsVars, req, builds, presentationName, files, dirs, w, wresult, cwd, pdfs, pkgJson,
                   installed, trace>>

\* name.pdf beside the markdown file
pdfBeside(mdPath) == join(dirname(mdPath), <<stripMd(basename(mdPath)) \o <<".pdf">>>>)

\* The locals of exportToPDF when it is entered.
EnterWrapper(inputFile, outputFile) ==
    [inputFile |-> inputFile, outputFile |-> outputFile, originalCwd |-> cwd,
     mdPath |-> <<>>, outputPath |-> <<>>, stagedMdRelPath |-> <<>>, i |-> 0,
     exportSuccessful |-> FALSE, lastError |-> <<>>, actualPdfPath |-> <<>>,
     pkgName |-> <<>>]

\* ExportHandlerOutput with the name of the last build read again after the
\* await, when the call gave neither inputPath nor name.
ExportHandlerOutputReadsNameAgain(mkdirOk) ==
    LET mdPath == IF ~Given(h.input.inputPath) /\ ~Truthy(h.input.name)
                  THEN join(presentationsDir, MdFileName(presentationName))
                  ELSE h.mdPath
    IN
    /\ pc = "h_output"
    /\ IF ~Given(h.input.outputPath)
       THEN /\ h' = [h EXCEPT !.outputPath = pdfBeside(mdPath)]
            /\ w' = EnterWrapper(mdPath, pdfBeside(mdPath))
            /\ pc' = "locate"
            /\ UNCHANGED <<dirs, response>>
       ELSE LET outDir == dirname(h.input.outputPath) IN
            IF ~dirExists(outDir) /\ ~mkdirOk
            THEN /\ HandlerCatch(<<"EACCES", ": permission denied, mkdir">>)
                 /\ UNCHANGED <<h, w, dirs>>
            ELSE /\ dirs' = dirs \cup {resolve(cwd, outDir)}
                 /\ h' = [h EXCEPT !.outputPath = h.input.outputPath]
                 /\ w' = EnterWrapper(mdPath, h.input.outputPath)
                 /\ pc' = "locate"
                 /\ UNCHANGED response
    /\ UNCHANGED <<appsVars, req, builds, presentationName, files, via, wresult, cwd, pdfs, pkgJson,
                   installed, trace>>

\* The second stretch: the output path and its directory, then the call of
\* exportToPDF.  mkdirSync throws into the catch block when it fails.
ExportHandlerOutput(mkdirOk) ==
    /\ pc = "h_output"
    /\ IF ~Given(h.input.outputPath)
       THEN /\ h' = [h EXCEPT !.outputPath = pdfBeside(h.mdPath)]
            /\ w' = EnterWrapper(h.mdPath, pdfBeside(h.mdPath))
            /\ pc' = "locate"
            /\ UNCHANGED <<dirs, response>>
       ELSE LET outDir == dirname(h.input.outputPath) IN
            IF ~dirExists(outDir) /\ ~mkdirOk
            THEN /\ HandlerCatch(<<"EACCES", ": permission denied, mkdir">>)
                 /\ UNCHANGED <<h, w, dirs>>
            ELSE /\ dirs' = dirs \cup {resolve(cwd, outDir)}
                 /\ h' = [h EXCEPT !.outputPath = h.input.outputPath]
                 /\ w' = EnterWrapper(h.mdPath, h.input.outputPath)
                 /\ pc' = "locate"
                 /\ UNCHANGED response
    /\ UNCHANGED <<appsVars, req, builds, presentationName, files, via, wresult, cwd, pdfs, pkgJson,
                   installed, trace>>

\* The last stretch, after await exportToPDF(...): a failure is thrown into
\* the catch block; on success the slides of the markdown file are counted.
\* readFileSync throws ENOENT when mdPath no longer names a file.
ExportHandlerResult ==
    /\ pc = "return" /\ via = "tool"
    /\ IF ~wresult.success
       THEN HandlerCatch(wresult.message)
       ELSE IF ~mdExists(h.mdPath)
       THEN HandlerCatch(<<"ENOENT", ": no such file or directory, open ">>
                         \o PathText(h.mdPath))
       ELSE /\ response' =
                Returned(TRUE, <<"PDF exported successfully! File saved at: ">>
                               \o PathText(IF wresult.pdfPath # <<>> THEN wresult.pdfPath
                                           ELSE h.outputPath),
                         slideCount(files[resolve(cwd, h.mdPath)]),
                         IF wresult.pdfPath # <<>> THEN wresult.pdfPath ELSE h.outputPath)
            /\ pc' = "done"
    /\ UNCHANGED <<appsVars, req, builds, presentationName, files, dirs, via, h, w, wresult, cwd, pdfs,
                   pkgJson, installed, trace>>

----------------------------------------------------------------------------
(* export-wrapper.js run from the command line *)

\* exportToPDF(inputFile, outputFile, options) of the CLI usage block
CliCall(inputFile, outputFile) ==
    /\ pc = "idle"
    /\ via' = "cli"
    /\ w' = EnterWrapper(inputFile, outputFile)
    /\ pc' = "locate"
    /\ UNCHANGED <<appsVars, deckVars, h, wresult, cwd, pdfs, pkgJson, installed, trace>>

\* .then(result => { console.log(JSON.stringify(result)); process.exit(...) })
CliExit ==
    /\ pc = "return" /\ via = "cli"
    /\ response' = Returned(wresult.success, wresult.message, 0, wresult.pdfPath)
    /\ pc' = "done"
    /\ UNCHANGED <<appsVars, req, builds, presentationName, files, dirs, via, h, w, wresult, cwd, pdfs,
                   pkgJson, installed, trace>>

----------------------------------------------------------------------------
(* exportToPDF of export-wrapper.js, step by step *)

\* One step of the call: where it stood (at), the command it ran for an
\* external process (cmd, "" for none), the argument, the outcome and the
\* message of the error the step threw (err).
Step(at, cmd, arg, ok, err) ==
    [at |-> at, cmd |-> cmd, arg |-> arg, ok |-> ok, err |-> err, out |-> <<>>]

\* The step is entered in the record of the call.
Log(at, cmd, arg, ok) == trace' = Append(trace, Step(at, cmd, arg, ok, <<>>))

\* The message of the error a failed npm or npx command throws.
installError(cmd, arg) == <<"Command failed: ", cmd, " ">> \o arg

\* The run of an external command that only succeeds or fails.
LogCommand(at, cmd, arg, ok) ==
    trace' = Append(trace, Step(at, cmd, arg, ok,
                                IF ok THEN <<>> ELSE installError(cmd, arg)))

\* catch (error) { return { success: false, pdfPath: '', message: ... } }
WrapperCatch(message) ==
    /\ wresult' = [success |-> FALSE, pdfPath |-> <<>>,
                   message |-> <<"PDF export failed: ">> \o message]
    /\ pc' = "return"

\* The candidate places of the input file, in the order they are tried.
possiblePaths(inputFile, originalCwd) ==
    <<resolve(originalCwd, inputFile),
      resolve(wrapperRoot, inputFile),
      resolve(cwd, inputFile),
      resolve(originalCwd, <<<<"presentations">>>> \o stripPresentations(inputFile)),
      resolve(wrapperRoot, <<<<"presentations">>>> \o stripPresentations(inputFile))>>

\* firstExisting without the break: the last path of the list that exists.
lastExisting(list, there) ==
    IF \E k \in 1..Len(list) : list[k] \in there
    THEN CHOOSE k \in 1..Len(list) :
             list[k] \in there /\ \A j \in (k + 1)..Len(list) : list[j] \notin there
    ELSE 0

\* for (const possiblePath of list) if (existsSync(possiblePath)) { ...; break }
\* The index of the first path of the list that is in `there`, or 0.
firstExisting(list, there) ==
    IF \E k \in 1..Len(list) : list[k] \in there
    THEN CHOOSE k \in 1..Len(list) :
             list[k] \in there /\ \A j \in 1..(k - 1) : list[j] \notin there
    ELSE 0

\* Locate with the working directory of the moment the caller made the call.
LocateFromEarlierCwd ==
    /\ pc = "locate"
    /\ LET list == possiblePaths(w.inputFile, w.originalCwd)
           k == firstExisting(list, DOMAIN files)
       IN  IF k = 0
           THEN /\ WrapperCatch(<<"Input file not found: ">> \o PathText(w.inputFile))
                /\ Log("locate", "", <<>>, FALSE)
                /\ UNCHANGED w
           ELSE /\ w' = [w EXCEPT !.mdPath = list[k]]
                /\ pc' = "mkroot"
                /\ Log("locate", "", <<>>, TRUE)
                /\ UNCHANGED wresult
    /\ UNCHANGED <<appsVars, deckVars, via, h, cwd, pdfs, pkgJson, installed>>

\* Locating: exportToPDF starts after the caller's await, and only then reads
\* process.cwd() into originalCwd; the first candidate that exists is the
\* input, or "Input file not found".
Locate ==
    /\ pc = "locate"
    /\ LET list == possiblePaths(w.inputFile, cwd)
           k == firstExisting(list, DOMAIN files)
       IN  IF k = 0
           THEN /\ WrapperCatch(<<"Input file not found: ">> \o PathText(w.inputFile))
                /\ Log("locate", "", <<>>, FALSE)
                /\ w' = [w EXCEPT !.originalCwd = cwd]
           ELSE /\ w' = [w EXCEPT !.originalCwd = cwd, !.mdPath = list[k]]
                /\ pc' = "mkroot"
                /\ Log("locate", "", <<>>, TRUE)
                /\ UNCHANGED wresult
    /\ UNCHANGED <<appsVars, deckVars, via, h, cwd, pdfs, pkgJson, installed>>

----------------------------------------------------------------------------
(* Preparing: the renderer project and its packages *)

CliPackage == <<"@", "slidev", "/", "cli">>
DefaultThemePackage == <<"@", "slidev", "/", "theme-", "default">>
PlaywrightPackage == <<"playwright", "-chromium">>

\* if (!existsSync(canonicalRoot)) mkdirSync(canonicalRoot, { recursive: true })
\* mkdirSync throws into the catch block of exportToPDF when it fails.
MakeRoot(mkdirOk) ==
    /\ pc = "mkroot"
    /\ IF canonicalRoot \in dirs
       THEN /\ pc' = "init"
            /\ Log("mkroot", "", <<>>, TRUE)
            /\ UNCHANGED <<dirs, wresult>>
       ELSE IF mkdirOk
       THEN /\ dirs' = dirs \cup {canonicalRoot}
            /\ pc' = "init"
            /\ Log("mkroot", "", <<>>, TRUE)
            /\ UNCHANGED wresult
       ELSE /\ WrapperCatch(<<"EACCES", ": permission denied, mkdir">>)
            /\ Log("mkroot", "", <<>>, FALSE)
            /\ UNCHANGED dirs
    /\ UNCHANGED <<appsVars, req, builds, presentationName, files, response, via, h, w, cwd, pdfs, pkgJson,
                   installed>>

\* AfterSetupError with the staging left out.
AfterSetupErrorSkipsStaging == "chdir"

\* Where the setup try block goes on after a step that threw: its catch
\* (setupErr) only logs, and the code after the block is the staging.
AfterSetupError == "stage"

\* if (!existsSync(join(canonicalRoot, 'package.json'))) execSync('npm init -y')
SetupInit(ok) ==
    /\ pc = "init"
    /\ IF pkgJson
       THEN /\ pc' = "cliCheck"
            /\ UNCHANGED <<pkgJson, trace>>
       ELSE /\ LogCommand("init", "npm init", <<>>, ok)
            /\ pkgJson' = ok
            /\ pc' = IF ok THEN "cliCheck" ELSE AfterSetupError
    /\ UNCHANGED <<appsVars, deckVars, via, h, w, wresult, cwd, pdfs, installed>>

\* CheckPackage that goes on to the install whatever the check found.
CheckPackageThenInstall(at, pkg, found, missing) ==
    /\ pc = at
    /\ LogCommand(at, "resolve", pkg, pkg \in installed)
    /\ pc' = missing
    /\ UNCHANGED <<appsVars, deckVars, via, h, w, wresult, cwd, pdfs, pkgJson, installed>>

\* execSync('node -e "require.resolve(pkg)"'): it throws when pkg is not there.
CheckPackage(at, pkg, found, missing) ==
    /\ pc = at
    /\ LogCommand(at, "resolve", pkg, pkg \in installed)
    /\ pc' = IF pkg \in installed THEN found ELSE missing
    /\ UNCHANGED <<appsVars, deckVars, via, h, w, wresult, cwd, pdfs, pkgJson, installed>>

\* InstallPackage without a catch around it: a failed install ends the export.
InstallPackageFatal(at, pkg, ok, done, failed) ==
    /\ pc = at
    /\ LogCommand(at, "install", pkg, ok)
    /\ installed' = IF ok THEN installed \cup {pkg} ELSE installed
    /\ pkgJson' = (pkgJson \/ ok)
    /\ IF ok
       THEN /\ pc' = done
            /\ UNCHANGED wresult
       ELSE WrapperCatch(installError("install", pkg))
    /\ UNCHANGED <<appsVars, deckVars, via, h, w, cwd, pdfs>>

\* execSync('npm install -D pkg ...'): it throws when the install fails.
InstallPackage(at, pkg, ok, done, failed) ==
    /\ pc = at
    /\ LogCommand(at, "install", pkg, ok)
    /\ installed' = IF ok THEN installed \cup {pkg} ELSE installed
    /\ pkgJson' = (pkgJson \/ ok)
    /\ pc' = IF ok THEN done ELSE failed
    /\ UNCHANGED <<appsVars, deckVars, via, h, w, wresult, cwd, pdfs>>

\* try { resolve @slidev/cli } catch { install @slidev/cli }: the install is
\* inside the catch clause, so an install that throws leaves the setup block.
SetupCliCheck == CheckPackage("cliCheck", CliPackage, "themeCheck", "cliInstall")
SetupCliInstall(ok) ==
    InstallPackage("cliInstall", CliPackage, ok, "themeCheck", AfterSetupError)

\* try { resolve @slidev/theme-default } catch { install @slidev/theme-default }
SetupThemeCheck == CheckPackage("themeCheck", DefaultThemePackage, "stage", "themeInstall")
SetupThemeInstall(ok) ==
    InstallPackage("themeInstall", DefaultThemePackage, ok, "stage", AfterSetupError)

----------------------------------------------------------------------------
(* Staging: the markdown is copied into <renderer project>/slides *)

stagedMdName(mdPath) == stripMd(basename(mdPath)) \o <<"-", mdHash(mdPath), ".md">>
stagedMdRelPath(mdPath) == <<<<"slides">>, stagedMdName(mdPath)>>
stagedMdAbsPath(mdPath) == join(canonicalRoot, stagedMdRelPath(mdPath))

\* mkdirSync(slidesDir) and copyFileSync(mdPath, stagedMdAbsPath); either may
\* throw, and the catch of the copy throws again (throw stageErr).
Stage(mkdirOk, copyOk) ==
    /\ pc = "stage"
    /\ IF slidesDir \notin dirs /\ ~mkdirOk
       THEN /\ WrapperCatch(<<"EACCES", ": permission denied, mkdir">>)
            /\ Log("stage", "", <<>>, FALSE)
            /\ UNCHANGED <<dirs, files, w>>
       ELSE IF ~copyOk
       THEN /\ WrapperCatch(<<"EACCES", ": permission denied, copyfile">>)
            /\ Log("stage", "", <<>>, FALSE)
            /\ dirs' = dirs \cup {slidesDir}
            /\ UNCHANGED <<files, w>>
       ELSE /\ dirs' = dirs \cup {slidesDir}
            /\ files' = [p \in DOMAIN files \cup {stagedMdAbsPath(w.mdPath)} |->
                            IF p = stagedMdAbsPath(w.mdPath) THEN files[w.mdPath]
                            ELSE files[p]]
            /\ w' = [w EXCEPT !.stagedMdRelPath = stagedMdRelPath(w.mdPath)]
            /\ pc' = "chdir"
            /\ Log("stage", "", <<>>, TRUE)
            /\ UNCHANGED wresult
    /\ UNCHANGED <<appsVars, req, builds, presentationName, response, via, h, cwd, pdfs, pkgJson, installed>>

----------------------------------------------------------------------------
(* Exporting: from the renderer project *)

\* process.chdir(canonicalRoot); const outputPath = resolve(canonicalRoot, outputFile)
Chdir ==
    /\ pc = "chdir"
    /\ cwd' = canonicalRoot
    /\ w' = [w EXCEPT !.outputPath = resolve(canonicalRoot, w.outputFile)]
    /\ pc' = "mkout"
    /\ Log("chdir", "", <<>>, TRUE)
    /\ UNCHANGED <<appsVars, deckVars, via, h, wresult, pdfs, pkgJson, installed>>

\* basename(outputPath): only the file name is given to the renderer
desiredOutputFilename(outputPath) == basename(outputPath)

\* if (!existsSync(outputDir)) mkdirSync(outputDir, { recursive: true })
MakeOutputDir(mkdirOk) ==
    /\ pc = "mkout"
    /\ IF dirname(w.outputPath) \in dirs \/ mkdirOk
       THEN /\ dirs' = dirs \cup {dirname(w.outputPath)}
            /\ pc' = "pwCheck"
            /\ Log("mkout", "", <<>>, TRUE)
            /\ UNCHANGED wresult
       ELSE /\ WrapperCatch(<<"EACCES", ": permission denied, mkdir">>)
            /\ Log("mkout", "", <<>>, FALSE)
            /\ UNCHANGED dirs
    /\ UNCHANGED <<appsVars, req, builds, presentationName, files, response, via, h, w, cwd, pdfs, pkgJson,
                   installed>>

\* try { resolve playwright-chromium } catch { try { install } catch { log } }
PlaywrightCheck == CheckPackage("pwCheck", PlaywrightPackage, "chromium", "pwInstall")
PlaywrightInstall(ok) ==
    InstallPackage("pwInstall", PlaywrightPackage, ok, "chromium", "chromium")

\* try { execSync('npx playwright install chromium --with-deps') } catch { log }
ChromiumInstall(ok) ==
    /\ pc = "chromium"
    /\ LogCommand("chromium", "playwright install", <<"chromium">>, ok)
    /\ pc' = "fmTheme"
    /\ UNCHANGED <<appsVars, deckVars, via, h, w, wresult, cwd, pdfs, pkgJson, installed>>

----------------------------------------------------------------------------
(* The theme of the frontmatter *)

LineStart(s, i) == i = 1 \/ s[i - 1] = "\n"

\* The first position at or after i that holds no white space (\s*).
RECURSIVE SkipSpace(_, _)
SkipSpace(s, i) == IF i <= Len(s) /\ IsSpace(s[i]) THEN SkipSpace(s, i + 1) ELSE i

\* The end of the longest run of [^"\n] that starts at i (i - 1 when empty).
RECURSIVE RunEnd(_, _)
RunEnd(s, i) ==
    IF i <= Len(s) /\ s[i] \notin {"dq", "\n"} THEN RunEnd(s, i + 1) ELSE i - 1

\* Where the value of a theme: key at j starts: after \s* and an optional quote.
ValueStart(s, j) ==
    LET a == SkipSpace(s, j + 1) IN IF a <= Len(s) /\ s[a] = "dq" THEN a + 1 ELSE a

\* The ends e of a capture that starts at ValueStart and lets the rest of the
\* pattern ("? [\s\S]*? ---) match after it.
CaptureEnds(s, j) ==
    {e \in ValueStart(s, j)..RunEnd(s, ValueStart(s, j)) :
        \E d \in (e + 1)..Len(s) : s[d] = "---"}

\* /^---[\s\S]*?\btheme\s*:\s*"?([^"\n]+)"?[\s\S]*?---/m : the pairs (i, j) of an
\* opening --- at a line start and a theme: key after it for which it matches.
ThemeMatches(s) ==
    {m \in (1..Len(s)) \X (1..Len(s)) :
        /\ s[m[1]] = "---" /\ LineStart(s, m[1])
        /\ m[2] > m[1] /\ s[m[2]] = "theme:"
        /\ CaptureEnds(s, m[2]) # {}}

\* themeMatch?.[1]?.trim(): the leftmost match, its theme: key the nearest one
\* (the lazy [\s\S]*?), its capture the longest one (the greedy +).
frontmatterTheme(mdText) ==
    IF ThemeMatches(mdText) = {} THEN Undefined
    ELSE LET i == CHOOSE a \in {m[1] : m \in ThemeMatches(mdText)} :
                      \A b \in {m[1] : m \in ThemeMatches(mdText)} : a <= b
             js == {m[2] : m \in {n \in ThemeMatches(mdText) : n[1] = i}}
             j == CHOOSE a \in js : \A b \in js : a <= b
             e == CHOOSE a \in CaptureEnds(mdText, j) :
                      \A b \in CaptureEnds(mdText, j) : a >= b
         IN  Trim(SubSeq(mdText, ValueStart(mdText, j), e))

\* derivePkgName without the case of a name that starts with theme-.
derivePkgNameAlwaysPrefixed(themeName) ==
    IF Includes(themeName, <<"/">>) \/ Head(themeName) = "@" THEN themeName
    ELSE <<"@", "slidev", "/", "theme-">> \o themeName

\* derivePkgName
derivePkgName(themeName) ==
    IF Includes(themeName, <<"/">>) \/ Head(themeName) = "@" THEN themeName
    ELSE IF Head(themeName) = "theme-" THEN <<"@", "slidev", "/">> \o themeName
    ELSE <<"@", "slidev", "/", "theme-">> \o themeName

\* const mdText = readFileSync(mdPath); ... if (frontmatterTheme && not 'none')
FrontmatterTheme ==
    /\ pc = "fmTheme"
    /\ LET theme == frontmatterTheme(files[w.mdPath]) IN
       IF Truthy(theme) /\ toLowerCase(theme) # <<"none">>
       THEN /\ w' = [w EXCEPT !.pkgName = derivePkgName(theme)]
            /\ pc' = "fmCheck"
            /\ Log("fmTheme", "", theme, TRUE)
       ELSE /\ pc' = "try"
            /\ Log("fmTheme", "", <<>>, FALSE)
            /\ UNCHANGED w
    /\ UNCHANGED <<appsVars, deckVars, via, h, wresult, cwd, pdfs, pkgJson, installed>>

\* try { resolve pkgName } catch { try { install pkgName } catch { log } }
FrontmatterCheck == CheckPackage("fmCheck", w.pkgName, "try", "fmInstall")
FrontmatterInstall(ok) == InstallPackage("fmInstall", w.pkgName, ok, "try", "try")

----------------------------------------------------------------------------
(* The export strategies *)

\* The ways the renderer is started, in the order they are tried.
exportCommands == <<"npx slidev", "node node_modules/@slidev/cli/bin/slidev.mjs">>

\* exportCommands[i] written out; i is 0-based as in the loop.
commandText(i, stagedRel, outputPath) ==
    <<"cd canonicalRoot && ", exportCommands[i + 1], " export ">> \o PathText(stagedRel)
    \o <<" --output ">> \o desiredOutputFilename(outputPath)

\* What the renderer prints when it fails.
Stderrs == {<<"Cannot find module ", "playwright", "-chromium">>,
            <<"sh: slidev: ", "command not found">>,
            <<"ETIMEDOUT">>}

\* The message of the error execSync throws: the command and its stderr.
commandError(i, stagedRel, outputPath, stderr) ==
    <<"Command failed: ">> \o commandText(i, stagedRel, outputPath) \o <<"\n">> \o stderr

\* Where a renderer that ended well may have left the PDF: under the name it
\* was given, under its built-in names, or nowhere the wrapper looks.
rendererOutputs(stagedRel, outputPath) ==
    {join(canonicalRoot, <<desiredOutputFilename(outputPath)>>),
     join(canonicalRoot, <<<<"slides-export", ".pdf">>>>),
     join(canonicalRoot, <<stripMd(basename(stagedRel)) \o <<"-export", ".pdf">>>>)}

\* healsAfter without the test of i: the self-heal after any strategy.
healsAfterAnyStrategy(message, i) == Includes(message, <<"playwright">>)

\* cmdError.message.includes('playwright') && i === 0
healsAfter(message, i) == Includes(message, <<"playwright">>) /\ i = 0

\* NextCommand that gives up after the first failure.
NextCommandGivesUp(frame) ==
    /\ w' = frame
    /\ WrapperCatch(frame.lastError)

\* The loop goes on to the next command; after the last one
\* if (!exportSuccessful) throw lastError.
NextCommand(frame) ==
    IF frame.i + 1 < Len(exportCommands)
    THEN /\ w' = [frame EXCEPT !.i = frame.i + 1]
         /\ pc' = "try"
         /\ UNCHANGED wresult
    ELSE /\ w' = frame
         /\ WrapperCatch(frame.lastError)

\* One turn of the loop: exportCommands[i] ends well ...
TrySucceeds ==
    /\ pc = "try"
    /\ \E out \in rendererOutputs(w.stagedMdRelPath, w.outputPath) \cup {<<>>} :
          /\ pdfs' = IF out = <<>> THEN pdfs ELSE pdfs \cup {out}
          /\ trace' = Append(trace, [Step("try", "export", <<exportCommands[w.i + 1]>>,
                                          TRUE, <<>>) EXCEPT !.out = out])
    /\ w' = [w EXCEPT !.exportSuccessful = TRUE]
    /\ pc' = "verify"
    /\ UNCHANGED <<appsVars, deckVars, via, h, wresult, cwd, pkgJson, installed>>

\* ... or throws: lastError = cmdError, the self-heal when it applies.
TryFails(stderr) ==
    /\ pc = "try"
    /\ LET message == commandError(w.i, w.stagedMdRelPath, w.outputPath, stderr)
           frame == [w EXCEPT !.lastError = message]
       IN  /\ trace' = Append(trace, Step("try", "export", <<exportCommands[w.i + 1]>>,
                                          FALSE, message))
           /\ IF healsAfter(message, w.i)
              THEN /\ w' = frame
                   /\ pc' = "heal"
                   /\ UNCHANGED wresult
              ELSE NextCommand(frame)
    /\ UNCHANGED <<appsVars, deckVars, via, h, cwd, pdfs, pkgJson, installed>>

\* try { install playwright-chromium; playwright install chromium } catch { log }
HealInstall(ok) ==
    /\ pc = "heal"
    /\ LogCommand("heal", "install", PlaywrightPackage, ok)
    /\ installed' = IF ok THEN installed \cup {PlaywrightPackage} ELSE installed
    /\ pkgJson' = (pkgJson \/ ok)
    /\ IF ok
       THEN /\ pc' = "healChromium"
            /\ UNCHANGED <<w, wresult>>
       ELSE NextCommand(w)
    /\ UNCHANGED <<appsVars, deckVars, via, h, cwd, pdfs>>

HealChromium(ok) ==
    /\ pc = "healChromium"
    /\ LogCommand("healChromium", "playwright install", <<"chromium">>, ok)
    /\ NextCommand(w)
    /\ UNCHANGED <<appsVars, deckVars, via, h, cwd, pdfs, pkgJson, installed>>

----------------------------------------------------------------------------
(* Verifying: where is the PDF? *)

possibleOutputPaths(frame) ==
    LET mdBase == stripMd(basename(frame.mdPath))
        name == desiredOutputFilename(frame.outputPath)
        stagedDir == dirname(join(canonicalRoot, frame.stagedMdRelPath))
    IN  <<frame.outputPath,
          resolve(canonicalRoot, frame.outputFile),
          join(canonicalRoot, frame.outputFile),
          join(cwd, frame.outputFile),
          join(canonicalRoot, <<name>>),
          join(stagedDir, <<name>>),
          join(canonicalRoot, <<<<"slides-export", ".pdf">>>>),
          join(stagedDir, <<<<"slides-export", ".pdf">>>>),
          join(canonicalRoot, <<mdBase \o <<".pdf">>>>),
          join(canonicalRoot, <<mdBase \o <<"-export", ".pdf">>>>),
          join(stagedDir, <<mdBase \o <<".pdf">>>>),
          join(stagedDir, <<mdBase \o <<"-export", ".pdf">>>>)>>

\* The scan of possibleOutputPaths; then the copy is due, or the PDF is where
\* it was asked for, or "PDF file was not created in any expected location".
Verify ==
    /\ pc = "verify"
    /\ LET list == possibleOutputPaths(w)
           k == firstExisting(list, pdfs)
       IN  IF k = 0
           THEN /\ WrapperCatch(<<"PDF file was not created in any expected location">>)
                /\ Log("verify", "", <<>>, FALSE)
                /\ UNCHANGED w
           ELSE /\ w' = [w EXCEPT !.actualPdfPath = list[k]]
                /\ pc' = IF list[k] # w.outputPath THEN "copy" ELSE "finish"
                /\ Log("verify", "", PathText(list[k]), TRUE)
                /\ UNCHANGED wresult
    /\ UNCHANGED <<appsVars, deckVars, via, h, cwd, pdfs, pkgJson, installed>>

\* CopyToOutput that forgets actualPdfPath = outputPath.
CopyToOutputKeepsFound(ok) ==
    /\ pc = "copy"
    /\ Log("copy", "", <<>>, ok)
    /\ pdfs' = IF ok THEN pdfs \cup {w.outputPath} ELSE pdfs
    /\ pc' = "finish"
    /\ UNCHANGED <<appsVars, deckVars, via, h, w, wresult, cwd, pkgJson, installed>>

\* try { copyFileSync(actualPdfPath, outputPath); actualPdfPath = outputPath }
\* catch { log }
CopyToOutput(ok) ==
    /\ pc = "copy"
    /\ Log("copy", "", <<>>, ok)
    /\ pdfs' = IF ok THEN pdfs \cup {w.outputPath} ELSE pdfs
    /\ w' = IF ok THEN [w EXCEPT !.actualPdfPath = w.outputPath] ELSE w
    /\ pc' = "finish"
    /\ UNCHANGED <<appsVars, deckVars, via, h, wresult, cwd, pkgJson, installed>>

\* stat(actualPdfPath); return { success: true, pdfPath: actualPdfPath, ... }
WrapperReturn ==
    /\ pc = "finish"
    /\ wresult' = [success |-> TRUE, pdfPath |-> w.actualPdfPath,
                   message |-> <<"PDF exported successfully: ">> \o PathText(w.actualPdfPath)]
    /\ pc' = "return"
    /\ Log("finish", "", <<>>, TRUE)
    /\ UNCHANGED <<appsVars, deckVars, via, h, w, cwd, pdfs, pkgJson, installed>>

----------------------------------------------------------------------------
(* The export specification: one export call on a machine with some past *)

ThemePackage == <<"@", "slidev", "/", "theme-", "seriph">>

\* The renderer project before the call: never used, used once with the
\* packages installed, or left with the CLI only.
ProjectInit ==
    {[root |-> FALSE, pkgJson |-> FALSE, installed |-> {}],
     [root |-> TRUE, pkgJson |-> TRUE, installed |-> {CliPackage}],
     [root |-> TRUE, pkgJson |-> TRUE,
      installed |-> {CliPackage, DefaultThemePackage, PlaywrightPackage, ThemePackage}]}

OutPdf == <<Root, <<"out">>, <<"talk", ".pdf">>>>

\* The PDFs an earlier export may have left.
PdfsInit == {{}, {OutPdf}, {join(canonicalRoot, <<<<"slides-export", ".pdf">>>>)}}

ExportRequest(inputPath, name, outputPath) ==
    [inputPath |-> inputPath, name |-> name, outputPath |-> outputPath]

\* The export_to_pdf requests of the model.
ExportInputs ==
    {ExportRequest(TalkMd, Undefined, NoPath),
     ExportRequest(TalkMd, Undefined, OutPdf),
     ExportRequest(<<Root, <<"decks">>, <<"gone", ".md">>>>, Undefined, NoPath),
     ExportRequest(<<Root, <<"decks">>, <<"playwright", "-intro", ".md">>>>, Undefined, NoPath),
     ExportRequest(<<<<"deck", ".md">>>>, Undefined, NoPath),
     ExportRequest(NoPath, <<"demo">>, <<<<"pdfs">>, <<"demo", ".pdf">>>>),
     ExportRequest(NoPath, <<"gone">>, NoPath),
     ExportRequest(NoPath, Undefined, NoPath)}

\* The arguments of export-wrapper.js on the command line.
CliInputs ==
    {<<<<<<"deck", ".md">>>>, <<<<"deck", ".pdf">>>>>>,
     <<<<<<"presentations">>, <<"intro", ".md">>>>, OutPdf>>,
     <<<<<<"gone", ".md">>>>, OutPdf>>}

\* No export call has been made.
NoCall ==
    /\ cwd = LaunchDir
    /\ pc = "idle"
    /\ via = "none"
    /\ h = [input |-> ExportRequest(NoPath, Undefined, NoPath), mdPath |-> <<>>,
            outputPath |-> <<>>]
    /\ w = EnterWrapper(<<>>, <<>>)
    /\ wresult = [success |-> FALSE, pdfPath |-> <<>>, message |-> <<>>]
    /\ trace = <<>>

ExportInit ==
    /\ req = [name |-> <<>>, title |-> <<>>, slides |-> <<>>, theme |-> Undefined,
              author |-> Undefined]
    /\ presentationName \in {<<>>, <<"demo">>}
    /\ files = DiskInit
    /\ \E project \in ProjectInit :
          /\ dirs = DirsInit \cup (IF project.root THEN {canonicalRoot} ELSE {})
          /\ pkgJson = project.pkgJson
          /\ installed = project.installed
    /\ pdfs \in PdfsInit
    /\ response = NoResponse
    /\ builds = <<>>
    /\ NoCall
    /\ AppsNotRunning

ExportNext ==
    \/ \E input \in ExportInputs : ExportHandlerResolve(input)
    \/ \E mkdirOk \in BOOLEAN : ExportHandlerOutput(mkdirOk)
    \/ ExportHandlerResult
    \/ \E args \in CliInputs : CliCall(args[1], args[2])
    \/ CliExit
    \/ Locate
    \/ \E mkdirOk \in BOOLEAN : MakeRoot(mkdirOk)
    \/ \E ok \in BOOLEAN : SetupInit(ok)
    \/ SetupCliCheck
    \/ \E ok \in BOOLEAN : SetupCliInstall(ok)
    \/ SetupThemeCheck
    \/ \E ok \in BOOLEAN : SetupThemeInstall(ok)
    \/ \E mkdirOk \in BOOLEAN, copyOk \in BOOLEAN : Stage(mkdirOk, copyOk)
    \/ Chdir
    \/ \E mkdirOk \in BOOLEAN : MakeOutputDir(mkdirOk)
    \/ PlaywrightCheck
    \/ \E ok \in BOOLEAN : PlaywrightInstall(ok)
    \/ \E ok \in BOOLEAN : ChromiumInstall(ok)
    \/ FrontmatterTheme
    \/ FrontmatterCheck
    \/ \E ok \in BOOLEAN : FrontmatterInstall(ok)
    \/ TrySucceeds
    \/ \E stderr \in Stderrs : TryFails(stderr)
    \/ \E ok \in BOOLEAN : HealInstall(ok)
    \/ \E ok \in BOOLEAN : HealChromium(ok)
    \/ Verify
    \/ \E ok \in BOOLEAN : CopyToOutput(ok)
    \/ WrapperReturn

Spec == ExportInit /\ [][ExportNext]_vars

----------------------------------------------------------------------------
(* Exports of decks with one theme or another *)

\* The themes a deck on disk may have been built with.
ThemeInputs ==
    {Undefined, <<"none">>, <<"None">>, <<"seriph">>, <<"theme-", "seriph">>,
     <<"@", "acme", "/", "deck">>, <<"acme", "/", "deck">>, <<"@", "acme">>}

\* The disk when the deck of TalkMd was built with the theme.
ThemedDisk(theme) ==
    [DiskInit EXCEPT ![TalkMd] = buildMarkdown([PlainDeck EXCEPT !.theme = theme])]

ThemeInit ==
    /\ req = [name |-> <<>>, title |-> <<>>, slides |-> <<>>, theme |-> Undefined,
              author |-> Undefined]
    /\ presentationName = <<>>
    /\ \E theme \in ThemeInputs : files = ThemedDisk(theme)
    /\ \E project \in ProjectInit :
          /\ dirs = DirsInit \cup (IF project.root THEN {canonicalRoot} ELSE {})
          /\ pkgJson = project.pkgJson
          /\ installed = project.installed
    /\ pdfs = {}
    /\ response = NoResponse
    /\ builds = <<>>
    /\ NoCall
    /\ AppsNotRunning

SpecTheme == ThemeInit /\ [][ExportNext]_vars

----------------------------------------------------------------------------
(* The decks of the deck specification *)

Slide(l, t, c, cd, lg) ==
    [layout |-> l, title |-> t, content |-> c, code |-> cd, codeLanguage |-> lg]

LayoutInputs == {Undefined, <<>>, <<" ">>, <<"two-cols">>}
TitleInputs == {Undefined, <<"Hello">>}
ContentInputs == {Undefined, <<"-", " ", "a">>, <<"---", "\n", "layout:", " ", "x">>}
CodeInputs == {Undefined, <<>>, <<"f()">>, <<"layout:", " ", "x">>}
LanguageInputs == {Undefined, <<>>, <<"js">>, <<"---">>}

\* The slides of the model: the layouts, a slide without anything, the
\* contents, the pairs of code and language in which one of the two is an
\* ordinary string or the two make up a separator, and a slide with everything.
SlideInputs ==
    {Slide(l, <<"Hello">>, Undefined, Undefined, Undefined) : l \in LayoutInputs}
    \cup {Slide(Undefined, Undefined, Undefined, Undefined, Undefined)}
    \cup {Slide(Undefined, <<"Hello">>, c, Undefined, Undefined) : c \in ContentInputs}
    \cup {Slide(<<"two-cols">>, Undefined, Undefined, p[1], p[2]) :
             p \in {q \in CodeInputs \X LanguageInputs :
                       \/ q[1] = <<"f()">>
                       \/ q[2] = <<"js">>
                       \/ q = <<<<"layout:", " ", "x">>, <<"---">>>>}}
    \cup {Slide(Undefined, <<"Hello">>, <<"-", " ", "a">>, <<"f()">>, <<"js">>)}

RECURSIVE SlideSeqs(_)
SlideSeqs(n) ==
    IF n = 0 THEN {<<>>}
    ELSE LET shorter == SlideSeqs(n - 1) IN
         shorter \cup {Append(s, x) : s \in {q \in shorter : Len(q) = n - 1}, x \in SlideInputs}

DeckInputs ==
    [name : {<<"demo">>}, title : {<<"Demo">>}, slides : SlideSeqs(MaxSlides),
     theme : {Undefined, <<" ">>, <<"seriph">>}, author : {Undefined, <<>>, <<"Ada">>}]

DeckInit ==
    /\ req \in DeckInputs
    /\ presentationName = <<>>
    /\ files = <<>>
    /\ dirs \in {{}, {presentationsDir}}
    /\ response = NoResponse
    /\ builds = <<>>
    /\ NoCall
    /\ AppsNotRunning
    /\ pdfs = {}
    /\ pkgJson = FALSE
    /\ installed = {}

\* The server handles one build_complete_presentation call.
Build(input) ==
    /\ req' = input
    /\ \E mkdirOk \in BOOLEAN, writeOk \in BOOLEAN : BuildHandler(input, mkdirOk, writeOk)
    /\ builds' = Append(builds, [input |-> input, result |-> response'])

BuildCall ==
    /\ response.kind = "none"
    /\ Build(req)
    /\ UNCHANGED <<exportVars, appsVars>>

DeckNext == BuildCall

SpecDeck == DeckInit /\ [][DeckNext]_vars

----------------------------------------------------------------------------
(* The builds specification: the server handles one build call after another *)

\* A second deck under the name of SeriphDeck, and one without slides.
SecondDemo ==
    [SeriphDeck EXCEPT !.title = <<"Demo", " ", "II">>,
                       !.slides = <<[layout |-> Undefined, title |-> <<"Again">>,
                                     content |-> Undefined, code |-> Undefined,
                                     codeLanguage |-> Undefined]>>]
EmptyDemo == [SeriphDeck EXCEPT !.slides = <<>>]

BuildInputs == {SeriphDeck, SecondDemo, PlainDeck, EmptyDemo}

\* The machine of ExportInit, nothing built yet in this process.
BuildsInit ==
    /\ req = [name |-> <<>>, title |-> <<>>, slides |-> <<>>, theme |-> Undefined,
              author |-> Undefined]
    /\ presentationName = <<>>
    /\ files = DiskInit
    /\ dirs = DirsInit
    /\ response = NoResponse
    /\ builds = <<>>
    /\ NoCall
    /\ AppsNotRunning
    /\ pdfs = {}
    /\ pkgJson = FALSE
    /\ installed = {}

BuildsNext ==
    \E input \in BuildInputs :
       /\ Len(builds) < MaxBuilds
       /\ Build(input)
       /\ UNCHANGED <<exportVars, appsVars>>

SpecBuilds == BuildsInit /\ [][BuildsNext]_vars

----------------------------------------------------------------------------
(* The server: build calls before and during one export call *)

\* The decks the clients build: demo, talk, and demo with no slides.
ServerBuildInputs == {SeriphDeck, PlainDeck, EmptyDemo}

\* The export_to_pdf requests: nothing given; an inputPath at which there is
\* no file, with the name of a deck; a name of which there is no deck.
ServerExportInputs ==
    {ExportRequest(NoPath, Undefined, NoPath),
     ExportRequest(<<Root, <<"decks">>, <<"gone", ".md">>>>, <<"demo">>, NoPath),
     ExportRequest(NoPath, <<"gone">>, NoPath)}

\* Where the export call is suspended and the event loop may run the handler
\* of another call: at the awaits of the handler (import("path"), which is
\* reached only without an outputPath; import of the wrapper; exportToPDF)
\* and at the awaits of exportToPDF (import('fs') before the staging copy,
\* before the frontmatter is read, before the copy of the PDF and before stat).
AtAwait ==
    /\ via = "tool"
    /\ \/ pc = "h_output" /\ ~Given(h.input.outputPath)
       \/ pc \in {"locate", "stage", "fmTheme", "copy", "finish", "return"}

\* A build call is handled: before the export call, or while it is suspended.
ServerBuild(input) ==
    /\ pc = "idle" \/ AtAwait
    /\ Len(builds) < MaxServerBuilds
    /\ Build(input)
    /\ UNCHANGED <<exportVars, appsVars>>

ServerInit == BuildsInit

ServerNext ==
    \/ \E input \in ServerBuildInputs : ServerBuild(input)
    \/ \E input \in ServerExportInputs : ExportHandlerResolve(input)
    \/ \E mkdirOk \in BOOLEAN : ExportHandlerOutput(mkdirOk)
    \/ ExportHandlerResult
    \/ Locate
    \/ \E mkdirOk \in BOOLEAN : MakeRoot(mkdirOk)
    \/ \E ok \in BOOLEAN : SetupInit(ok)
    \/ SetupCliCheck
    \/ \E ok \in BOOLEAN : SetupCliInstall(ok)
    \/ SetupThemeCheck
    \/ \E ok \in BOOLEAN : SetupThemeInstall(ok)
    \/ \E mkdirOk \in BOOLEAN, copyOk \in BOOLEAN : Stage(mkdirOk, copyOk)
    \/ Chdir
    \/ \E mkdirOk \in BOOLEAN : MakeOutputDir(mkdirOk)
    \/ PlaywrightCheck
    \/ \E ok \in BOOLEAN : PlaywrightInstall(ok)
    \/ \E ok \in BOOLEAN : ChromiumInstall(ok)
    \/ FrontmatterTheme
    \/ FrontmatterCheck
    \/ \E ok \in BOOLEAN : FrontmatterInstall(ok)
    \/ TrySucceeds
    \/ \E stderr \in Stderrs : TryFails(stderr)
    \/ \E ok \in BOOLEAN : HealInstall(ok)
    \/ \E ok \in BOOLEAN : HealChromium(ok)
    \/ Verify
    \/ \E ok \in BOOLEAN : CopyToOutput(ok)
    \/ WrapperReturn

SpecServer == ServerInit /\ [][ServerNext]_vars

----------------------------------------------------------------------------
(* The server: two export calls that overlap *)

\* The export_to_pdf requests with an inputPath: relative and absolute.
OverlapExportInputs ==
    {ExportRequest(<<<<"deck", ".md">>>>, Undefined, NoPath),
     ExportRequest(<<<<"deck", ".md">>>>, Undefined, OutPdf),
     ExportRequest(DemoMd, Undefined, NoPath)}

\* Another export call in flight goes from its import('fs') to its next await
\* while this one is suspended before its own process.chdir: it has made the
\* renderer project and its slides directory, and it switches the working
\* directory of the process, which nothing switches back.
OverlappingChdir ==
    /\ AtAwait /\ pc \in {"h_output", "locate", "stage"}
    /\ cwd # canonicalRoot
    /\ cwd' = canonicalRoot
    /\ dirs' = dirs \cup {canonicalRoot, slidesDir}
    /\ UNCHANGED <<appsVars, req, builds, presentationName, files, response, pc, via, h, w, wresult,
                   pdfs, pkgJson, installed, trace>>

OverlapNext ==
    \/ OverlappingChdir
    \/ \E input \in OverlapExportInputs : ExportHandlerResolve(input)
    \/ \E mkdirOk \in BOOLEAN : ExportHandlerOutput(mkdirOk)
    \/ ExportHandlerResult
    \/ Locate
    \/ \E mkdirOk \in BOOLEAN : MakeRoot(mkdirOk)
    \/ \E ok \in BOOLEAN : SetupInit(ok)
    \/ SetupCliCheck
    \/ \E ok \in BOOLEAN : SetupCliInstall(ok)
    \/ SetupThemeCheck
    \/ \E ok \in BOOLEAN : SetupThemeInstall(ok)
    \/ \E mkdirOk \in BOOLEAN, copyOk \in BOOLEAN : Stage(mkdirOk, copyOk)
    \/ Chdir
    \/ \E mkdirOk \in BOOLEAN : MakeOutputDir(mkdirOk)
    \/ PlaywrightCheck
    \/ \E ok \in BOOLEAN : PlaywrightInstall(ok)
    \/ \E ok \in BOOLEAN : ChromiumInstall(ok)
    \/ FrontmatterTheme
    \/ FrontmatterCheck
    \/ \E ok \in BOOLEAN : FrontmatterInstall(ok)
    \/ TrySucceeds
    \/ \E stderr \in Stderrs : TryFails(stderr)
    \/ \E ok \in BOOLEAN : HealInstall(ok)
    \/ \E ok \in BOOLEAN : HealChromium(ok)
    \/ Verify
    \/ \E ok \in BOOLEAN : CopyToOutput(ok)
    \/ WrapperReturn


SpecOverlap == ServerInit /\ [][OverlapNext]_vars

----------------------------------------------------------------------------
(* Exports of a deck that build_complete_presentation wrote *)

\* The decks: two slides, one slide, and two slides of which the first has a
\* content that holds a separator line and a layout line.
ExportedDecks ==
    {PlainDeck,
     [PlainDeck EXCEPT !.slides = <<Slide(Undefined, <<"Hello">>, Undefined, Undefined,
                                          Undefined)>>],
     [PlainDeck EXCEPT !.slides[1].content = <<"---", "\n", "layout:", " ", "x">>]}

\* An earlier call built req into the file of TalkMd.
ExportedInit ==
    /\ req \in ExportedDecks
    /\ files = [DiskInit EXCEPT ![TalkMd] = buildMarkdown(req)]
    /\ presentationName = <<>>
    /\ \E project \in ProjectInit :
          /\ dirs = DirsInit \cup (IF project.root THEN {canonicalRoot} ELSE {})
          /\ pkgJson = project.pkgJson
          /\ installed = project.installed
    /\ pdfs = {}
    /\ response = NoResponse
    /\ builds = <<>>
    /\ NoCall
    /\ AppsNotRunning

SpecExported == ExportedInit /\ [][ExportNext]_vars

----------------------------------------------------------------------------
(* AgentResultsApp: the payload of the command line *)

\* The tool server beside the apps: started, no call handled.
ServerNotCalled ==
    /\ req = [name |-> <<>>, title |-> <<>>, slides |-> <<>>, theme |-> Undefined,
              author |-> Undefined]
    /\ presentationName = <<>>
    /\ files = DiskInit
    /\ dirs = DirsInit
    /\ response = NoResponse
    /\ builds = <<>>
    /\ NoCall
    /\ pdfs = {}
    /\ pkgJson = FALSE
    /\ installed = {}

\* The one JSON file of the run, and a results array.
ResultsJson == "/results.json"
SomeResults == <<"result">>

\* What the file holds: an object with both keys, an object without
\* projectName, a bare array of results, something that is no JSON.
JsonObject(name) == [kind |-> "object", projectName |-> name, results |-> SomeResults]
JsonArray == [kind |-> "array", projectName |-> Nil, results |-> SomeResults]
NotJson == [kind |-> "text", projectName |-> Nil, results |-> <<>>]

\* try? Data(contentsOf: url)
DataAt(path) == IF path = ResultsJson THEN inputData ELSE NoFile

\* try? JSONDecoder().decode(AgentResultsPayload.self, from: data):
\* projectName and results are both required.
DecodesAsPayload(data) == data.kind = "object" /\ data.projectName # Nil

\* try? JSONDecoder().decode([AgentResultItem].self, from: data)
DecodesAsResults(data) == data.kind = "array"

samplePayload == [projectName |-> "AutoMetrics Release", results |-> <<"sample">>]

\* The while loop over CommandLine.arguments, from index i (1-based here);
\* flags is [inputPath, overrideProject].
RECURSIVE ParseFlags(_, _, _)
ParseFlags(args, i, flags) ==
    IF i > Len(args) THEN flags
    ELSE IF args[i] = "--input" /\ i + 1 <= Len(args)
         THEN ParseFlags(args, i + 2, [flags EXCEPT !.inputPath = args[i + 1]])
    ELSE IF args[i] = "--project" /\ i + 1 <= Len(args)
         THEN ParseFlags(args, i + 2, [flags EXCEPT !.overrideProject = args[i + 1]])
    ELSE ParseFlags(args, i + 1, flags)

\* The project name of a decoded full payload.
PayloadName(data, overrideProject) ==
    IF overrideProject # Nil /\ overrideProject # ""
    THEN overrideProject
    ELSE data.projectName

\* NoPayload where the source returns nil.
loadPayloadFromCLI(args) ==
    LET flags == ParseFlags(args, 1, [inputPath |-> Nil, overrideProject |-> Nil])
        data == DataAt(flags.inputPath)
    IN  IF flags.inputPath = Nil THEN NoPayload
        ELSE IF data = NoFile THEN NoPayload
        ELSE IF DecodesAsPayload(data)
             THEN [projectName |-> PayloadName(data, flags.overrideProject),
                   results |-> data.results]
        ELSE IF DecodesAsResults(data)
             THEN [projectName |-> IF flags.overrideProject # Nil
                                   THEN flags.overrideProject ELSE "Project",
                   results |-> data.results]
        ELSE NoPayload

makeInitialState(args) ==
    IF loadPayloadFromCLI(args) # NoPayload
    THEN loadPayloadFromCLI(args)
    ELSE samplePayload

\* The app is launched and builds its window.
LaunchResultsApp ==
    /\ resultsState = NoPayload
    /\ resultsState' = makeInitialState(arguments)
    /\ UNCHANGED <<arguments, inputData, precursorVars, deckVars, exportVars>>

\* What a user may type after the program's name.
MaxArgs == 4
ArgWords == {"--input", "--project", ResultsJson, "Mine", ""}

ArgLists ==
    UNION {[1..n -> ArgWords] : n \in 0..MaxArgs}

ResultsInit ==
    /\ arguments \in {<<"AgentResultsApp">> \o rest : rest \in ArgLists}
    /\ inputData \in {NoFile, JsonObject("FromJson"), JsonObject(""), JsonObject(Nil),
                      JsonArray, NotJson}
    /\ resultsState = NoPayload
    /\ database = TasksTable
    /\ AppStateInit
    /\ ServerNotCalled

ResultsNext == LaunchResultsApp

SpecResults == ResultsInit /\ [][ResultsNext]_vars

----------------------------------------------------------------------------
(* PrecursorApp: the review of the agent's completed tasks *)

\* struct AgentTaskItem, as far as the app compares and shows it; status is
\* the raw value of its TaskStatus.
AgentTaskItem(id, projectName, status) ==
    [id |-> id, projectName |-> projectName, status |-> status]

NoTask == AgentTaskItem(0, Nil, Nil)

\* ORDER BY datetime(created_at) DESC
RECURSIVE NewestFirst(_)
NewestFirst(ids) ==
    IF ids = {} THEN <<>>
    ELSE LET newest == CHOOSE x \in ids : \A y \in ids : y <= x
         IN  <<newest>> \o NewestFirst(ids \ {newest})

ListedWhateverSection(id) == database[id].section \in {Pending, Accepted, Rejected}

\* WHERE status = 'active' AND section IN (pending, accepted)
Listed(id) == database[id].section \in {Pending, Accepted}

\* SQLiteClient.listProjects
listProjects ==
    SelectSeq(ProjectNames,
              LAMBDA p : \E id \in DOMAIN database :
                             Listed(id) /\ database[id].project_name = p)

\* SQLiteClient.listTasks
listTasks(projectName) ==
    LET order == NewestFirst({id \in DOMAIN database :
                                 Listed(id) /\ database[id].project_name = projectName})
    IN  [k \in 1..Len(order) |->
            AgentTaskItem(order[k], database[order[k]].project_name,
                          IF database[order[k]].section = Accepted
                          THEN Accepted ELSE Pending)]

\* SQLiteClient.updateTaskSection / updateTaskSectionRaw:
\* UPDATE scratchpad_entries SET section = ? WHERE id = ?
updateTaskSection(id, newSection) ==
    [database EXCEPT ![id].section = newSection]

\* A block given to DispatchQueue.main.
MainBlock(kind, projs, selected, items, task) ==
    [kind |-> kind, projs |-> projs, selected |-> selected, items |-> items,
     task |-> task]

NoBlock == MainBlock("none", <<>>, Nil, <<>>, NoTask)

\* A block given to DispatchQueue.global: what it was given for, the values
\* it captured, and the block it has for the main queue once its database
\* work is done.
Job(kind, project, task) ==
    [kind |-> kind, project |-> project, task |-> task, block |-> NoBlock]

Without(seq, i) == SubSeq(seq, 1, i - 1) \o SubSeq(seq, i + 1, Len(seq))

\* The job has done its database work and holds its block for the main queue.
Hold(i, block) == background' = [background EXCEPT ![i].block = block]

Waiting(i, kind) ==
    /\ i \in 1..Len(background)
    /\ background[i].kind = kind
    /\ background[i].block = NoBlock

\* content: neither the progress view nor the error text.
ListShown == ~isLoading /\ errorMessage = Nil

\* .onAppear of PrecursorAppView, with AppState.loadInitial up to its dispatch
OnAppear(initialProject) ==
    /\ clicks = 0
    /\ clicks' = 1
    /\ selectedProject' = IF initialProject # Nil THEN initialProject ELSE selectedProject
    /\ isLoading' = TRUE
    /\ errorMessage' = Nil
    /\ background' = Append(background, Job("loadInitial", Nil, NoTask))
    /\ UNCHANGED <<database, projects, tasks, mainQueue, resultsVars, deckVars,
                   exportVars>>

\* The block loadInitial gave to the global queue, up to its dispatch to main
LoadInitialInBackground(i, ok) ==
    /\ Waiting(i, "loadInitial")
    /\ LET projs == listProjects
           selected == IF selectedProject # Nil THEN selectedProject
                       ELSE IF projs # <<>> THEN projs[1] ELSE Nil
           items == IF selected # Nil THEN listTasks(selected) ELSE <<>>
       IN  Hold(i, IF ok THEN MainBlock("loaded", projs, selected, items, NoTask)
                   ELSE MainBlock("loadFailed", <<>>, Nil, <<>>, NoTask))
    /\ UNCHANGED <<database, projects, selectedProject, tasks, errorMessage,
                   isLoading, mainQueue, clicks, resultsVars, deckVars, exportVars>>

\* A button of projectPickerBar: AppState.selectProject with reloadTasks up
\* to its dispatch
selectProject(project) ==
    /\ clicks \in 1..(MaxClicks - 1)
    /\ \E k \in 1..Len(projects) : projects[k] = project
    /\ clicks' = clicks + 1
    /\ selectedProject' = project
    /\ isLoading' = TRUE
    /\ errorMessage' = Nil
    /\ background' = Append(background, Job("reloadTasks", project, NoTask))
    /\ UNCHANGED <<database, projects, tasks, mainQueue, resultsVars, deckVars,
                   exportVars>>

\* The block reloadTasks gave to the global queue
ReloadInBackground(i, ok) ==
    /\ Waiting(i, "reloadTasks")
    /\ Hold(i, IF ok
               THEN MainBlock("reloaded", <<>>, Nil, listTasks(background[i].project), NoTask)
               ELSE MainBlock("loadFailed", <<>>, Nil, <<>>, NoTask))
    /\ UNCHANGED <<database, projects, selectedProject, tasks, errorMessage,
                   isLoading, mainQueue, clicks, resultsVars, deckVars, exportVars>>

\* The Accept button of a card: AppState.accept up to its dispatch
accept(task) ==
    /\ clicks \in 1..(MaxClicks - 1)
    /\ ListShown
    /\ \E k \in 1..Len(tasks) : tasks[k] = task
    /\ task.status = Pending
    /\ clicks' = clicks + 1
    /\ background' = Append(background, Job("accept", Nil, task))
    /\ UNCHANGED <<database, projects, selectedProject, tasks, errorMessage,
                   isLoading, mainQueue, resultsVars, deckVars, exportVars>>

\* The Reject button of a card: AppState.reject up to its dispatch
reject(task) ==
    /\ clicks \in 1..(MaxClicks - 1)
    /\ ListShown
    /\ \E k \in 1..Len(tasks) : tasks[k] = task
    /\ task.status = Pending
    /\ clicks' = clicks + 1
    /\ background' = Append(background, Job("reject", Nil, task))
    /\ UNCHANGED <<database, projects, selectedProject, tasks, errorMessage,
                   isLoading, mainQueue, resultsVars, deckVars, exportVars>>

\* The block accept gave to the global queue
AcceptInBackground(i, ok) ==
    /\ Waiting(i, "accept")
    /\ IF ok
       THEN /\ database' = updateTaskSection(background[i].task.id, Accepted)
            /\ Hold(i, MainBlock("accepted", <<>>, Nil, <<>>, background[i].task))
       ELSE /\ Hold(i, MainBlock("updateFailed", <<>>, Nil, <<>>, NoTask))
            /\ UNCHANGED database
    /\ UNCHANGED <<projects, selectedProject, tasks, errorMessage, isLoading,
                   mainQueue, clicks, resultsVars, deckVars, exportVars>>

\* The block reject gave to the global queue
RejectInBackground(i, ok) ==
    /\ Waiting(i, "reject")
    /\ IF ok
       THEN /\ database' = updateTaskSection(background[i].task.id, Rejected)
            /\ Hold(i, MainBlock("rejected", <<>>, Nil, <<>>, background[i].task))
       ELSE /\ Hold(i, MainBlock("updateFailed", <<>>, Nil, <<>>, NoTask))
            /\ UNCHANGED database
    /\ UNCHANGED <<projects, selectedProject, tasks, errorMessage, isLoading,
                   mainQueue, clicks, resultsVars, deckVars, exportVars>>

\* DispatchQueue.main.async { ... } at the end of a background block
DispatchToMain(i) ==
    /\ i \in 1..Len(background)
    /\ background[i].block # NoBlock
    /\ mainQueue' = Append(mainQueue, background[i].block)
    /\ background' = Without(background, i)
    /\ UNCHANGED <<database, projects, selectedProject, tasks, errorMessage,
                   isLoading, clicks, resultsVars, deckVars, exportVars>>

\* if let idx = self.tasks.firstIndex(of: task) { self.tasks[idx] = ... }
MarkAccepted(list, task) ==
    IF \E k \in 1..Len(list) : list[k].id = task.id
    THEN LET idx == CHOOSE k \in 1..Len(list) :
                        /\ list[k].id = task.id
                        /\ \A j \in 1..(k - 1) : list[j].id # task.id
         IN  [list EXCEPT ![idx] = AgentTaskItem(task.id, task.projectName, Accepted)]
    ELSE list

\* self.tasks.removeAll { $0.id == task.id }
RemoveTask(list, task) == SelectSeq(list, LAMBDA t : t.id # task.id)

\* The main queue runs its next block.
RunOnMain ==
    /\ mainQueue # <<>>
    /\ mainQueue' = Tail(mainQueue)
    /\ LET block == Head(mainQueue)
       IN  CASE block.kind = "loaded" ->
                  /\ projects' = block.projs
                  /\ selectedProject' = block.selected
                  /\ tasks' = block.items
                  /\ isLoading' = FALSE
                  /\ UNCHANGED errorMessage
             [] block.kind = "reloaded" ->
                  /\ tasks' = block.items
                  /\ isLoading' = FALSE
                  /\ UNCHANGED <<projects, selectedProject, errorMessage>>
             [] block.kind = "loadFailed" ->
                  /\ errorMessage' = "error"
                  /\ isLoading' = FALSE
                  /\ UNCHANGED <<projects, selectedProject, tasks>>
             [] block.kind = "accepted" ->
                  /\ tasks' = MarkAccepted(tasks, block.task)
                  /\ UNCHANGED <<projects, selectedProject, errorMessage, isLoading>>
             [] block.kind = "rejected" ->
                  /\ tasks' = RemoveTask(tasks, block.task)
                  /\ UNCHANGED <<projects, selectedProject, errorMessage, isLoading>>
             [] block.kind = "updateFailed" ->
                  /\ errorMessage' = "error"
                  /\ UNCHANGED <<projects, selectedProject, tasks, isLoading>>
    /\ UNCHANGED <<database, background, clicks, resultsVars, deckVars, exportVars>>

\* The table when the app is launched: the second row may have been
\* reviewed in an earlier run.
PrecursorInit ==
    /\ database \in {[TasksTable EXCEPT ![2].section = sec] :
                        sec \in {Pending, Accepted, Rejected}}
    /\ AppStateInit
    /\ arguments = <<>>
    /\ inputData = NoFile
    /\ resultsState = NoPayload
    /\ ServerNotCalled

PrecursorNext ==
    \/ \E initialProject \in {Nil, "alpha", "beta"} : OnAppear(initialProject)
    \/ \E project \in {"alpha", "beta"} : selectProject(project)
    \/ \E k \in 1..Len(tasks) : accept(tasks[k])
    \/ \E k \in 1..Len(tasks) : reject(tasks[k])
    \/ \E i \in 1..Len(background), ok \in BOOLEAN :
          \/ LoadInitialInBackground(i, ok)
          \/ ReloadInBackground(i, ok)
          \/ AcceptInBackground(i, ok)
          \/ RejectInBackground(i, ok)
    \/ \E i \in 1..Len(background) : DispatchToMain(i)
    \/ RunOnMain

SpecPrecursor == PrecursorInit /\ [][PrecursorNext]_vars

----------------------------------------------------------------------------
(* What the claims speak of *)

\* exportToPDF has returned.
Finished == pc \in {"return", "done"}

\* The steps of the call that started an external process.
Processes == SelectSeq(trace, LAMBDA s : s.cmd # "")

\* The export strategies that were attempted, in the order of the attempts.
Attempts == SelectSeq(trace, LAMBDA s : s.cmd = "export")

\* The steps that install something: the package descriptor, a package, the browser.
IsInstall(s) == s.cmd \in {"npm init", "install", "playwright install"}

StepsAt(at) == {k \in DOMAIN trace : trace[k].at = at}

----------------------------------------------------------------------------
(* C1: a build call with an empty slides array returns success = false,     *)
(* slideCount 0 and an empty filePath, and writes nothing: no directory is  *)
(* made and no file appears or changes.                                     *)
C1_EmptyBuildWritesNothing ==
    [][(response.kind = "none" /\ response'.kind # "none" /\ Len(req.slides) = 0)
           => /\ response'.kind = "returned"
              /\ response'.success = FALSE
              /\ response'.slideCount = 0
              /\ response'.path = <<>>
              /\ files' = files
              /\ dirs' = dirs]_vars

\* The empty build was answered while the presentations directory was absent.
C1_Witness ==
    /\ Len(req.slides) = 0
    /\ response.kind = "returned"
    /\ presentationsDir \notin dirs

----------------------------------------------------------------------------
(* C2: an export whose input markdown does not exist fails with a message   *)
(* saying that the input was not found, and starts no external process.     *)

\* The file the handler looks for.
HandlerTarget(input) ==
    IF Given(input.inputPath) THEN input.inputPath
    ELSE join(presentationsDir, MdFileName(input.name))

SaysNotFound(message) ==
    \/ Includes(message, <<"Input markdown not found: ">>)
    \/ Includes(message, <<"Presentation file not found: ">>)
    \/ Includes(message, <<"Input file not found: ">>)

MissingInput ==
    \/ /\ via = "tool"
       /\ Given(h.input.inputPath) \/ Truthy(h.input.name)
       /\ resolve(LaunchDir, HandlerTarget(h.input)) \notin DOMAIN DiskInit
    \/ /\ via = "cli"
       /\ \A k \in 1..5 :
             possiblePaths(w.inputFile, LaunchDir)[k] \notin DOMAIN DiskInit

C2_MissingInputSaysNotFound ==
    (pc = "done" /\ MissingInput)
        => /\ ~response.success
           /\ SaysNotFound(response.message)
           /\ Processes = <<>>

----------------------------------------------------------------------------
(* C3: every failure inside a tool operation is returned as a structured    *)
(* result with success = false; no tool handler throws to its caller.       *)
C3_NoHandlerThrows == response.kind # "threw"

----------------------------------------------------------------------------
(* C4: the export strategies are attempted in list order, each at most      *)
(* once; none is attempted after one succeeded; when all of them fail the   *)
(* export fails with the error of the last one attempted.                   *)
C4_StrategiesInOrder ==
    /\ Len(Attempts) <= Len(exportCommands)
    /\ \A k \in DOMAIN Attempts : Attempts[k].arg = <<exportCommands[k]>>
    /\ \A k \in DOMAIN Attempts : Attempts[k].ok => k = Len(Attempts)
    /\ (Finished /\ Attempts # <<>> /\ ~Attempts[Len(Attempts)].ok)
          => /\ Len(Attempts) = Len(exportCommands)
             /\ ~wresult.success
             /\ wresult.message =
                    <<"PDF export failed: ">> \o Attempts[Len(Attempts)].err

\* Both strategies were attempted and failed, with different errors.
C4_Witness ==
    /\ pc = "done"
    /\ Len(Attempts) = 2
    /\ ~Attempts[2].ok
    /\ Attempts[1].err # Attempts[2].err

----------------------------------------------------------------------------
(* C5: an export call goes through Locating, Preparing, Staging, Exporting, *)
(* Verifying in this order, each stage entered once and only after the one  *)
(* before it, the work of a stage done before the work of the next begins,  *)
(* and ends in exactly one of Done and Failed.                              *)

\* The stage section 4.3 of the specification gives each step to.
SpecStage(at) ==
    CASE at = "locate" -> 1
      [] at \in {"mkroot", "init", "cliCheck", "cliInstall", "themeCheck", "themeInstall"} -> 2
      [] at \in {"stage", "fmTheme", "fmCheck", "fmInstall"} -> 3
      [] at \in {"chdir", "mkout", "pwCheck", "pwInstall", "chromium", "try", "heal",
                 "healChromium"} -> 4
      [] OTHER -> 5

\* The stage a step belongs to by its place in exportToPDF: the theme of the
\* frontmatter is looked at after the working directory was switched.
CodeStage(at) == IF at \in {"fmTheme", "fmCheck", "fmInstall"} THEN 4 ELSE SpecStage(at)

\* A run of stage numbers that starts with Locating, never goes back and
\* leaves no stage out.
InStageOrder(stages) ==
    /\ stages # <<>> => stages[1] = 1
    /\ \A k \in 1..(Len(stages) - 1) :
          /\ stages[k] <= stages[k + 1]
          /\ stages[k + 1] <= stages[k] + 1

\* The stages of the steps of the call, in the order of the steps.
SpecStages == [k \in DOMAIN trace |-> SpecStage(trace[k].at)]
CodeStages == [k \in DOMAIN trace |-> CodeStage(trace[k].at)]

\* Done or Failed, and nothing else, is how a call ends.
EndsDoneOrFailed ==
    /\ pc = "done" => response.kind = "returned"
    /\ (Finished /\ trace # <<>>)
          => (wresult.success <=> trace[Len(trace)].at = "finish")
    /\ (Finished /\ trace # <<>> /\ ~wresult.success) => ~trace[Len(trace)].ok

\* The claim as made.
C5_StagesAsSpecified == InStageOrder(SpecStages) /\ EndsDoneOrFailed

\* The claim as amended: the theme of the frontmatter is part of Exporting,
\* after the directory switch and the browser installs, before the first attempt.
C5_StagesAsCoded ==
    /\ InStageOrder(CodeStages)
    /\ EndsDoneOrFailed
    /\ \A k \in DOMAIN trace :
          trace[k].at \in {"fmTheme", "fmCheck", "fmInstall"}
              => /\ \E j \in 1..(k - 1) : trace[j].at = "chromium"
                 /\ \A j \in 1..k : trace[j].at \notin {"try", "heal", "healChromium"}

\* A call that ended well after it installed the theme of the frontmatter.
C5_Witness ==
    /\ pc = "done"
    /\ response.success
    /\ \E k \in StepsAt("fmInstall") : trace[k].ok

----------------------------------------------------------------------------
(* C6: the Preparing checks are independent: a failure of the package       *)
(* descriptor's initialisation or of the renderer CLI's install does not    *)
(* keep the later checks (renderer CLI, default theme) from being made.     *)
C6_PreparingChecksIndependent ==
    StepsAt("stage") # {}
        => /\ \E k \in StepsAt("cliCheck") : trace[k].arg = CliPackage
           /\ \E k \in StepsAt("themeCheck") : trace[k].arg = DefaultThemePackage

----------------------------------------------------------------------------
(* C7: no failed install ends the export: once the input is staged an       *)
(* export strategy is attempted whatever the installs did (only a failure   *)
(* to make the output directory comes between), and the error returned is   *)
(* never the error of an install.                                           *)
C7_InstallFailuresNotFatal ==
    /\ (Finished /\ \E k \in StepsAt("stage") : trace[k].ok)
          => \/ Attempts # <<>>
             \/ trace[Len(trace)] = Step("mkout", "", <<>>, FALSE, <<>>)
    /\ \A k \in DOMAIN trace :
          (IsInstall(trace[k]) /\ ~trace[k].ok)
              => /\ pc \notin {"return", "done"} \/ k < Len(trace)
                 /\ wresult.message # <<"PDF export failed: ">> \o trace[k].err
                 /\ w.lastError # trace[k].err

\* Every install of the call failed, four or more, and a strategy was attempted.
C7_Witness ==
    /\ pc = "done"
    /\ Attempts # <<>>
    /\ Cardinality({k \in DOMAIN trace : IsInstall(trace[k])}) >= 4
    /\ \A k \in DOMAIN trace : IsInstall(trace[k]) => ~trace[k].ok

----------------------------------------------------------------------------
(* C8: after a strategy succeeded the first existing place of the list of   *)
(* plausible output places is the artifact; when none exists the export     *)
(* fails although the renderer succeeded; so success is returned only when  *)
(* a file exists at the reported pdfPath.                                   *)

\* The places of the list where a PDF is.
Found == {k \in 1..Len(possibleOutputPaths(w)) : possibleOutputPaths(w)[k] \in pdfs}

C8_FirstExistingIsArtifact ==
    /\ (pc \in {"copy", "finish"} /\ trace[Len(trace)].at = "verify")
          => \E k \in Found :
                /\ w.actualPdfPath = possibleOutputPaths(w)[k]
                /\ \A j \in Found : k <= j
    /\ (Finished /\ Attempts # <<>> /\ Attempts[Len(Attempts)].ok /\ Found = {})
          => /\ ~wresult.success
             /\ wresult.message = <<"PDF export failed: ",
                                    "PDF file was not created in any expected location">>
    /\ (Finished /\ wresult.success) => wresult.pdfPath \in pdfs
    /\ (pc = "done" /\ response.success) => response.path \in pdfs

\* A PDF was at two places of the list, and the export returned success.
C8_Witness ==
    /\ pc = "done"
    /\ response.success
    /\ Cardinality(Found) >= 2
    /\ w.outputPath \notin pdfs

----------------------------------------------------------------------------
(* C9: an artifact found elsewhere than at the requested output path is     *)
(* copied there and the requested path is reported; when the copy fails the *)
(* export still returns success and reports where the artifact was found.   *)
C9_CopyToRequestedPath ==
    (Finished /\ StepsAt("verify") # {})
        => \A v \in StepsAt("verify") :
              (trace[v].ok /\ trace[v].arg # PathText(w.outputPath))
                  => /\ trace[v + 1].at = "copy"
                     /\ wresult.success
                     /\ trace[v + 1].ok
                           => /\ wresult.pdfPath = w.outputPath
                              /\ w.outputPath \in pdfs
                     /\ ~trace[v + 1].ok
                           => /\ PathText(wresult.pdfPath) = trace[v].arg
                              /\ wresult.pdfPath \in pdfs

\* The artifact was found elsewhere and the copy failed.
C9_Witness ==
    /\ pc = "done"
    /\ response.success
    /\ \E k \in StepsAt("copy") : ~trace[k].ok

----------------------------------------------------------------------------
(* C10: the built document holds exactly N occurrences of the separator     *)
(* that opens a slide's layout declaration ("---\nlayout:"), N the number   *)
(* of slides, whatever the strings of the slides are.                       *)

\* The claim as made.
C10_SeparatorsEqualSlides ==
    (response.kind = "returned" /\ response.success)
        => slideMatches(files[response.path]) = Len(req.slides)

\* Every string the caller gave.
GivenStrings(input) ==
    {input.title, input.theme, input.author}
    \cup UNION {{input.slides[k].layout, input.slides[k].title, input.slides[k].content,
                 input.slides[k].code, input.slides[k].codeLanguage} :
                k \in DOMAIN input.slides}

\* No string holds the separator, and no code block puts one together from a
\* language that ends in --- and a code that begins with layout:.
SeparatorFree(input) ==
    /\ \A s \in GivenStrings(input) : ~Includes(s, SlidePattern)
    /\ \A k \in DOMAIN input.slides :
          LET slide == input.slides[k] IN
          ~(/\ Truthy(slide.code) /\ Truthy(slide.codeLanguage)
            /\ slide.codeLanguage[Len(slide.codeLanguage)] = "---"
            /\ Head(slide.code) = "layout:")

\* The claim as amended.
C10_SeparatorsEqualSlidesWhenFree ==
    (response.kind = "returned" /\ response.success /\ SeparatorFree(req))
        => slideMatches(files[response.path]) = Len(req.slides)

\* Two slides, a body and a code block, no separator in any string.
C10_Witness ==
    /\ response.kind = "returned" /\ response.success
    /\ SeparatorFree(req)
    /\ Len(req.slides) = 2
    /\ Truthy(req.slides[1].content)
    /\ Truthy(req.slides[2].code) /\ Truthy(req.slides[2].codeLanguage)

----------------------------------------------------------------------------
(* The built document, read back: its blocks and what follows them *)

\* The document of the build that was answered.
Built == files[response.path]

BuildSucceeded == response.kind = "returned" /\ response.success /\ via = "none"

\* Where the blocks of the slides open: the places of ---\nlayout:
BlockStarts(doc) == {i \in 1..Len(doc) : MatchAt(doc, SlidePattern, i)}

\* Where the block of slide k (1-based) opens.
BlockStart(doc, k) ==
    CHOOSE i \in BlockStarts(doc) : Cardinality({j \in BlockStarts(doc) : j <= i}) = k

\* The part of the document that belongs to slide k: from where its block
\* opens to where the next one opens.
SlideText(doc, k) ==
    SubSeq(doc, BlockStart(doc, k),
           IF k < Cardinality(BlockStarts(doc)) THEN BlockStart(doc, k + 1) - 1
           ELSE Len(doc))

\* The place of the --- that closes the block a slide's text opens with.
BlockEnd(text) ==
    CHOOSE i \in 2..Len(text) : text[i] = "---" /\ \A j \in 2..(i - 1) : text[j] # "---"

\* The lines of the block, between the opening and the closing ---.
Block(text) == SubSeq(text, 3, BlockEnd(text) - 1)

\* What follows the block.
Body(text) == SubSeq(text, BlockEnd(text) + 1, Len(text))

\* The keys of a block, in the order of its lines.
Keys(block) ==
    SelectSeq(block, LAMBDA t : t \in {"layout:", "theme:", "title:", "author:"})

\* The first place of pattern p in text s, or 0.
FirstAt(s, p) ==
    IF Includes(s, p)
    THEN CHOOSE i \in 1..Len(s) : MatchAt(s, p, i) /\ \A j \in 1..(i - 1) : ~MatchAt(s, p, j)
    ELSE 0

\* The value of the line of a key: what stands between "key: " and the line's end.
LineValue(block, key) ==
    LET i == FirstAt(block, <<key>>)
        rest == SubSeq(block, i + 2, Len(block))
    IN  SubSeq(rest, 1, FirstAt(rest, <<"\n">>) - 1)

\* An optional string that is absent or blank.
Omitted(s) == s = Undefined \/ Trim(s) = <<>>

----------------------------------------------------------------------------
(* C11: the block of the first slide declares the layout of the slide, or   *)
(* "cover" when the slide gives none (none: absent or blank); the block of  *)
(* every later slide declares the layout of that slide, or "default"; the   *)
(* blocks stand in the order of the slides.                                 *)
C11_LayoutsDeclared ==
    (BuildSucceeded /\ SeparatorFree(req))
        => /\ Cardinality(BlockStarts(Built)) = Len(req.slides)
           /\ \A k \in DOMAIN req.slides :
                 LineValue(Block(SlideText(Built, k)), "layout:") =
                    IF ~Omitted(req.slides[k].layout) THEN req.slides[k].layout
                    ELSE IF k = 1 THEN <<"cover">> ELSE <<"default">>

\* Two slides: the first gives a layout, the second gives none.
C11_Witness ==
    /\ BuildSucceeded /\ SeparatorFree(req)
    /\ Len(req.slides) = 2
    /\ req.slides[1].layout = <<"two-cols">>
    /\ req.slides[2].layout = Undefined
    /\ Truthy(req.slides[2].content)

----------------------------------------------------------------------------
(* C12: a slide gets a fenced code block if and only if both code and       *)
(* codeLanguage are present on it, the empty string counting as present;    *)
(* the language tag of the fence is codeLanguage.                           *)

HasFence(text) == Includes(text, <<"~~~">>)

\* What stands between the opening fence and the end of its line.
FenceTag(text) ==
    LET rest == SubSeq(text, FirstAt(text, <<"~~~">>) + 1, Len(text))
    IN  SubSeq(rest, 1, FirstAt(rest, <<"\n">>) - 1)

\* The claim as made: present is anything but absent.
C12_FenceIffPresent ==
    (BuildSucceeded /\ SeparatorFree(req))
        => \A k \in DOMAIN req.slides :
              HasFence(SlideText(Built, k))
                 <=> (req.slides[k].code # Undefined /\ req.slides[k].codeLanguage # Undefined)

\* The claim as amended: both are present and neither is the empty string.
C12_FenceIffNonEmpty ==
    (BuildSucceeded /\ SeparatorFree(req))
        => \A k \in DOMAIN req.slides :
              LET slide == req.slides[k]
                  text == SlideText(Built, k)
              IN  /\ HasFence(text) <=> (Truthy(slide.code) /\ Truthy(slide.codeLanguage))
                  /\ HasFence(text)
                        => /\ FenceTag(text) = slide.codeLanguage
                           /\ Includes(text, <<"~~~">> \o slide.codeLanguage \o <<"\n">>
                                             \o slide.code \o <<"\n", "~~~", "\n">>)

\* One slide with a fence, one with code that is the empty string and none.
C12_Witness ==
    /\ BuildSucceeded /\ SeparatorFree(req)
    /\ Len(req.slides) = 2
    /\ req.slides[1].code = <<"f()">> /\ req.slides[1].codeLanguage = <<"js">>
    /\ req.slides[2].code = <<>> /\ req.slides[2].codeLanguage = <<"js">>
    /\ HasFence(SlideText(Built, 1))
    /\ ~HasFence(SlideText(Built, 2))

----------------------------------------------------------------------------
(* C13: only the block of the first slide carries the data of the deck:     *)
(* layout, theme if and only if a theme is given, title, author if and only *)
(* if an author is given (a blank theme and an empty author count as not    *)
(* given); the block of a later slide holds its layout line only.  After a  *)
(* block come the heading, the content and the code block, those that are   *)
(* there, in this order.                                                    *)

\* The places, in what follows the block of slide k, of the heading, of the
\* content and of the fence; 0 for what is not there.
HeadingAt(body) == FirstAt(body, <<"\n", "#", " ">>)
ContentAt(body, slide) ==
    IF Truthy(slide.content) THEN FirstAt(body, <<"\n">> \o slide.content \o <<"\n">>) ELSE 0
FenceAt(body) == FirstAt(body, <<"\n", "~~~">>)

InOrder(a, b) == (a # 0 /\ b # 0) => a < b

C13_MetadataOnFirstBlockOnly ==
    (BuildSucceeded /\ SeparatorFree(req))
        => /\ Keys(Block(SlideText(Built, 1))) =
                 <<"layout:">>
                 \o (IF Omitted(req.theme) THEN <<>> ELSE <<"theme:">>)
                 \o <<"title:">>
                 \o (IF Truthy(req.author) THEN <<"author:">> ELSE <<>>)
           /\ ~Omitted(req.theme)
                 => LineValue(Block(SlideText(Built, 1)), "theme:") = req.theme
           /\ LineValue(Block(SlideText(Built, 1)), "title:") = <<"dq">> \o req.title \o <<"dq">>
           /\ Truthy(req.author)
                 => LineValue(Block(SlideText(Built, 1)), "author:")
                       = <<"dq">> \o req.author \o <<"dq">>
           /\ \A k \in 2..Len(req.slides) :
                 Block(SlideText(Built, k)) =
                    <<"layout:", " ">>
                    \o LineValue(Block(SlideText(Built, k)), "layout:") \o <<"\n">>
           /\ \A k \in DOMAIN req.slides :
                 LET slide == req.slides[k]
                     body == Body(SlideText(Built, k))
                 IN  /\ HeadingAt(body) # 0 <=> Truthy(slide.title)
                     /\ Truthy(slide.title)
                           => MatchAt(body, <<"\n", "#", " ">> \o slide.title \o <<"\n">>,
                                      HeadingAt(body))
                     /\ Truthy(slide.content) => ContentAt(body, slide) # 0
                     /\ InOrder(HeadingAt(body), ContentAt(body, slide))
                     /\ InOrder(HeadingAt(body), FenceAt(body))
                     /\ InOrder(ContentAt(body, slide), FenceAt(body))

\* A deck with theme and author whose second slide has heading, content and code.
C13_Witness ==
    /\ BuildSucceeded /\ SeparatorFree(req)
    /\ req.theme = <<"seriph">> /\ req.author = <<"Ada">>
    /\ Len(req.slides) = 2
    /\ Truthy(req.slides[2].title) /\ Truthy(req.slides[2].content)
    /\ Truthy(req.slides[2].code) /\ Truthy(req.slides[2].codeLanguage)

----------------------------------------------------------------------------
(* C14: two successful builds under one name write the same path,           *)
(* <presentations dir>/<name>.md; after any run of builds the file at that  *)
(* path is the document of the latest successful build under that name, and *)
(* builds under other names do not change it.                               *)

DeckPath(name) == join(presentationsDir, MdFileName(name))

\* The successful builds under a name.
WrittenAs(name) ==
    {k \in DOMAIN builds : builds[k].input.name = name /\ builds[k].result.success}

C14_LastBuildWins ==
    /\ \A k \in DOMAIN builds :
          builds[k].result.success => builds[k].result.path = DeckPath(builds[k].input.name)
    /\ \A k \in DOMAIN builds :
          (builds[k].result.success
             /\ \A j \in WrittenAs(builds[k].input.name) : j <= k)
            => files[DeckPath(builds[k].input.name)] = buildMarkdown(builds[k].input)
    /\ \A p \in DOMAIN DiskInit :
          (\A k \in DOMAIN builds : WrittenAs(builds[k].input.name) # {}
                                       => p # DeckPath(builds[k].input.name))
            => files[p] = DiskInit[p]

\* A deck, a deck of another name, and another deck under the first name.
C14_Witness ==
    /\ Len(builds) = 3
    /\ \A k \in 1..3 : builds[k].result.success
    /\ builds[1].input.name = builds[3].input.name
    /\ builds[2].input.name # builds[1].input.name
    /\ buildMarkdown(builds[1].input) # buildMarkdown(builds[3].input)

----------------------------------------------------------------------------
(* C15: a failed export returns one of three messages, chosen by what the   *)
(* error text holds: the browser remedy when it mentions playwright, else   *)
(* the renderer remedy when it holds ENOENT or "command not found", else    *)
(* the error text itself; and a failure that has neither of the two causes  *)
(* (a missing input, say) is never turned into a remedy.                    *)

\* The export failed in the renderer: the last strategy was attempted and failed,
\* and its error is what exportToPDF returned.
FailedInRenderer ==
    /\ Attempts # <<>>
    /\ ~Attempts[Len(Attempts)].ok
    /\ trace[Len(trace)].at \in {"try", "heal", "healChromium"}

\* What the renderer printed when the last strategy failed: the error of the
\* attempt without the command line it starts with.
LastStderr ==
    LET err == Attempts[Len(Attempts)].err
        command == commandText(Len(Attempts) - 1, w.stagedMdRelPath, w.outputPath)
    IN  SubSeq(err, Len(command) + 3, Len(err))

\* The causes the remedies are for.
BrowserMissing == FailedInRenderer /\ Includes(toLowerCase(LastStderr), <<"playwright">>)
RendererMissing ==
    FailedInRenderer
    /\ (Includes(LastStderr, <<"ENOENT">>) \/ Includes(LastStderr, <<"command not found">>))

C15_RemedyOnlyForItsCause ==
    (pc = "done" /\ via = "tool" /\ ~response.success)
        => /\ response.message = PlaywrightRemedy => BrowserMissing
           /\ response.message = CliRemedy => RendererMissing
           /\ response.message \notin {PlaywrightRemedy, CliRemedy}
                 => Head(response.message) = "PDF export failed: "

----------------------------------------------------------------------------
(* C16: the theme package is derived from the theme of the frontmatter: a   *)
(* value with a "/" in it or an "@" at its start is the package as it is, a *)
(* value that starts with "theme-" gives @slidev/<value>, any other value   *)
(* gives @slidev/theme-<value>; without a theme, or with the theme "none"   *)
(* in any letter case, no theme package is checked or installed.            *)

\* The theme the frontmatter of the located deck declares, if any.
DeclaredTheme ==
    LET block == Block(files[w.mdPath]) IN
    IF Includes(block, <<"theme:">>) THEN LineValue(block, "theme:") ELSE Undefined

NoTheme == DeclaredTheme = Undefined \/ toLowerCase(DeclaredTheme) = <<"none">>

PackageOfTheme ==
    IF \E k \in DOMAIN DeclaredTheme : DeclaredTheme[k] = "/" THEN DeclaredTheme
    ELSE IF DeclaredTheme[1] = "@" THEN DeclaredTheme
    ELSE IF DeclaredTheme[1] = "theme-" THEN <<"@", "slidev", "/">> \o DeclaredTheme
    ELSE <<"@", "slidev", "/", "theme-">> \o DeclaredTheme

\* The steps that check or install the theme package of the frontmatter.
ThemeSteps == StepsAt("fmCheck") \cup StepsAt("fmInstall")

----------------------------------------------------------------------------
(* C17: the self-heal (the install of playwright-chromium and of Chromium)  *)
(* is started only by a failure of the first export strategy whose message  *)
(* mentions playwright; it runs before the next strategy is tried, never    *)
(* after a later strategy, and its own failure does not keep the next       *)
(* strategy from being tried.                                               *)

\* The steps of the self-heal.
HealSteps == StepsAt("heal") \cup StepsAt("healChromium")

\* The places of the export attempts in the record of the call.
AttemptSteps == {k \in DOMAIN trace : trace[k].cmd = "export"}

C17_SelfHealAfterFirstStrategyOnly ==
    /\ \A k \in HealSteps :
          \E j \in AttemptSteps :
             /\ j < k
             /\ AttemptSteps \cap (1..k) = {j}
             /\ trace[j].arg = <<exportCommands[1]>>
             /\ ~trace[j].ok
             /\ Includes(trace[j].err, <<"playwright">>)
             /\ \A n \in (j + 1)..k : n \in HealSteps
    /\ (HealSteps # {} /\ pc \notin {"heal", "healChromium"})
          => \/ pc = "try" /\ w.i = 1
             \/ /\ Len(Attempts) >= 2
                /\ Attempts[2].arg = <<exportCommands[2]>>

C17_Witness ==
    /\ \E k \in HealSteps : ~trace[k].ok
    /\ Len(Attempts) = 2
    /\ Attempts[2].ok

----------------------------------------------------------------------------
(* C18: an export call with an inputPath exports that file; without one but *)
(* with a name, <presentations dir>/<name>.md; with neither, the deck of    *)
(* the presentation that was built last in this process, and when none was  *)
(* built it fails before any external process is started.                   *)

NothingGiven(input) == ~Given(input.inputPath) /\ ~Truthy(input.name)

\* The build calls that built a presentation.
SuccessfulBuilds ==
    SelectSeq(builds, LAMBDA b : b.result.kind = "returned" /\ b.result.success)

\* The handler fails at once: nothing was run for the call.
FailsAtOnce ==
    /\ pc' = "done"
    /\ response'.kind = "returned" /\ ~response'.success
    /\ trace' = <<>>

\* The handler takes the file as its input, or fails at once when it is not there.
ResolvesTo(target) ==
    IF resolve(cwd, target) \in DOMAIN files
    THEN pc' = "h_output" /\ h'.mdPath = target
    ELSE FailsAtOnce

C18_ResolvesLastBuilt ==
    [][(pc = "idle" /\ via' = "tool")
          => LET input == h'.input IN
             IF Given(input.inputPath) THEN ResolvesTo(input.inputPath)
             ELSE IF Truthy(input.name)
             THEN ResolvesTo(join(presentationsDir, MdFileName(input.name)))
             ELSE IF SuccessfulBuilds = <<>> THEN FailsAtOnce
             ELSE ResolvesTo(join(presentationsDir,
                      MdFileName(SuccessfulBuilds[Len(SuccessfulBuilds)].input.name)))]_vars

----------------------------------------------------------------------------
(* C19: while an export call is suspended at an await, another export call  *)
(* may switch the working directory of the process to the renderer project; *)
(* the suspended call then resolves its relative input path against that    *)
(* directory, and locates another file than the one its handler saw, or     *)
(* none.                                                                    *)

\* The file the handler saw when the call was made from the launch directory.
SeenByHandler(inputFile) == resolve(LaunchDir, inputFile)

C19_LocatesAgainstCurrentDirectory ==
    [][(pc = "locate" /\ pc' # "locate" /\ ~IsAbsolute(w.inputFile))
          => /\ w'.originalCwd = cwd
             /\ IF cwd = LaunchDir
                THEN pc' = "mkroot" /\ w'.mdPath = SeenByHandler(w.inputFile)
                ELSE w'.mdPath # SeenByHandler(w.inputFile)]_vars

C19_Witness ==
    /\ via = "tool"
    /\ h.mdPath = <<<<"deck", ".md">>>>
    /\ SeenByHandler(h.mdPath) \in DOMAIN files
    /\ w.originalCwd = canonicalRoot
    /\ \E k \in StepsAt("locate") : ~trace[k].ok
    /\ Includes(wresult.message, <<"Input file not found: ">>)

----------------------------------------------------------------------------
(* C20: a build call for another deck that is handled while an export call  *)
(* (one with neither inputPath nor name) is in flight changes the name of   *)
(* the last build, so that the export goes on with another presentation     *)
(* than the one that was built last when it was issued.                     *)

\* The deck the name of the last build stands for.
LastBuiltDeck == join(presentationsDir, MdFileName(presentationName))

\* An export call without inputPath or name has resolved its input, and a
\* build call for another deck has been handled since.
OtherDeckBuiltSince ==
    /\ via = "tool" /\ NothingGiven(h.input)
    /\ h.mdPath # <<>>
    /\ h.mdPath # LastBuiltDeck

\* The statement of the claim: after such a build the wrapper works on
\* another deck than the one the call was issued for.
C20_OverlappingBuildRedirectsExport ==
    (OtherDeckBuiltSince /\ w.mdPath # <<>>) => w.mdPath # h.mdPath

\* What holds instead: the name is read once, when the call is issued, and
\* the deck of that name stays the input of the call to its end.
C20_ExportKeepsDeckOfIssue ==
    [][/\ (pc = "idle" /\ via' = "tool" /\ NothingGiven(h'.input) /\ pc' = "h_output")
             => h'.mdPath = LastBuiltDeck
       /\ (via = "tool" /\ NothingGiven(h.input))
             => /\ h'.mdPath = h.mdPath
                /\ w'.inputFile \in {<<>>, h.mdPath}
                /\ w'.mdPath \in {<<>>, h.mdPath}
                /\ w.mdPath # <<>> => w'.mdPath = w.mdPath]_vars

C20_Witness ==
    /\ OtherDeckBuiltSince
    /\ builds[Len(builds)].result.kind = "returned" /\ builds[Len(builds)].result.success
    /\ pc = "done" /\ response.success
    /\ w.mdPath = h.mdPath

----------------------------------------------------------------------------
(* C21: in an export call no install command is issued for a package that   *)
(* was resolvable in the renderer project when it was checked (the renderer *)
(* CLI, the default theme, playwright-chromium, the theme of the            *)
(* frontmatter); an export on a prepared project installs no package.       *)

\* The npm install commands of the call.
PackageInstalls == {k \in DOMAIN trace : trace[k].cmd = "install"}

\* The checks of the call that found their package.
FoundChecks == {k \in DOMAIN trace : trace[k].cmd = "resolve" /\ trace[k].ok}

\* The statement of the claim.
C21_NoInstallOfResolvable ==
    \A k \in PackageInstalls :
       \A j \in FoundChecks : j < k => trace[j].arg # trace[k].arg

\* What holds instead: the installs that follow a check are skipped when the
\* check finds the package; only the self-heal installs without a check.
C21_NoInstallAfterFoundCheck ==
    /\ \A k \in PackageInstalls :
          \/ trace[k].at = "heal"
          \/ /\ k > 1
             /\ trace[k - 1].cmd = "resolve"
             /\ trace[k - 1].arg = trace[k].arg
             /\ ~trace[k - 1].ok
    /\ \A j \in FoundChecks :
          j < Len(trace) =>
             ~(trace[j + 1].cmd = "install" /\ trace[j + 1].at # "heal")

\* A prepared project: the four packages are found, nothing is installed.
C21_Witness ==
    /\ Finished /\ wresult.success
    /\ Cardinality(FoundChecks) = 4
    /\ PackageInstalls = {}

----------------------------------------------------------------------------
(* C25: the PDF a successful export reports was written by the renderer of  *)
(* that call: a PDF an earlier export left (at the requested path or under  *)
(* a default name in the renderer project) is never taken, nor copied to    *)
(* the requested path, as the artifact of the call.                         *)

\* The PDFs the renderer of this call wrote.
RendererWrote == {trace[k].out : k \in {j \in AttemptSteps : trace[j].ok}} \ {<<>>}

C25_ArtifactWrittenByThisCall ==
    [][(pc = "verify" /\ pc' \in {"copy", "finish"})
          => w'.actualPdfPath \in RendererWrote]_vars

----------------------------------------------------------------------------
(* C26: when an export call has returned, with success or with a failure at *)
(* any stage, the working directory of the process is what it was before    *)
(* the call.                                                                *)
C26_WorkingDirectoryRestored ==
    (pc = "done" /\ via = "tool") => cwd = LaunchDir

----------------------------------------------------------------------------
(* C27: a build call that is rejected for an empty list of slides changes   *)
(* nothing: not the files, not the directories and not the name of the last *)
(* build, so that an export without inputPath and name still exports the    *)
(* presentation of the last successful build.                               *)

\* The step is a build call with an empty list of slides.
RejectedBuild ==
    /\ Len(builds') = Len(builds) + 1
    /\ Len(builds'[Len(builds')].input.slides) = 0

C27_RejectedBuildChangesNothing ==
    [][RejectedBuild => UNCHANGED <<presentationName, files, dirs>>]_vars

----------------------------------------------------------------------------
(* C28: a result of export_to_pdf without success has an empty pdfPath and  *)
(* slideCount 0; one with success has a pdfPath at which a file is, and a   *)
(* slideCount of at least 1 that is the number of slides of the document,   *)
(* when build_complete_presentation produced it.                            *)

\* export_to_pdf has returned a result.
ExportReturned == pc = "done" /\ via = "tool" /\ response.kind = "returned"

\* The export was one of the deck that was built from req.
ExportedBuiltDeck == h.mdPath = TalkMd

\* The statement of the claim.
C28_ResultShape ==
    ExportReturned
        => IF response.success
           THEN /\ response.path # <<>>
                /\ response.path \in pdfs
                /\ response.slideCount >= 1
                /\ ExportedBuiltDeck => response.slideCount = Len(req.slides)
           ELSE response.path = <<>> /\ response.slideCount = 0

\* What holds instead: the count is the number of slides when no string of
\* the deck holds the separator.
C28_ResultShapeWhenFree ==
    ExportReturned
        => IF response.success
           THEN /\ response.path # <<>>
                /\ response.path \in pdfs
                /\ response.slideCount >= 1
                /\ (ExportedBuiltDeck /\ SeparatorFree(req))
                      => response.slideCount = Len(req.slides)
           ELSE response.path = <<>> /\ response.slideCount = 0

C28_Witness ==
    /\ ExportReturned /\ response.success
    /\ ExportedBuiltDeck /\ SeparatorFree(req)
    /\ Len(req.slides) = 1
    /\ response.slideCount = 1

\* C24: in AgentResultsApp, when the input JSON carries its own
\* projectName, that name is the one displayed, whatever --project says;
\* --project names the project only for a bare array of results.
FullPayloadRead ==
    /\ resultsState # NoPayload
    /\ LET flags == ParseFlags(arguments, 1, [inputPath |-> Nil, overrideProject |-> Nil])
       IN  /\ flags.inputPath = ResultsJson
           /\ DecodesAsPayload(inputData)

C24_JsonNameDisplayed ==
    FullPayloadRead => resultsState.projectName = inputData.projectName

\* The vocabulary of the PrecursorApp claims.

\* In this step job i of the given kind does its database work with success.
Succeeds(i, kind, done) ==
    /\ Waiting(i, kind)
    /\ Len(background') = Len(background)
    /\ background'[i].block.kind = done

\* In this step the main queue runs a block of the given kind for the task.
MainRuns(kind, id) ==
    /\ mainQueue # <<>>
    /\ mainQueue' = Tail(mainQueue)
    /\ Head(mainQueue).kind = kind
    /\ Head(mainQueue).task.id = id

InList(list, id) == \E k \in 1..Len(list) : list[k].id = id

ShownAs(list, id, status) ==
    \E k \in 1..Len(list) : list[k].id = id /\ list[k].status = status

\* A load reads the table in this step and holds the list it read.
LoadsList(i) ==
    /\ i \in 1..Len(background)
    /\ background[i].block = NoBlock
    /\ Len(background') = Len(background)
    /\ background'[i].block.kind \in {"loaded", "reloaded"}

\* C22: Accept moves the item's stored section to the accepted one, and its
\* completion shows the item as accepted where the list still holds it;
\* Reject moves the stored section to the rejected one, and its completion
\* removes the item from the list; a list read from the table holds no item
\* whose stored section is the rejected one.
C22_AcceptRejectMoveSections ==
    [][/\ \A i \in 1..Len(background) :
             /\ Succeeds(i, "accept", "accepted")
                  => database'[background[i].task.id].section = Accepted
             /\ Succeeds(i, "reject", "rejected")
                  => database'[background[i].task.id].section = Rejected
             /\ LoadsList(i)
                  => \A k \in 1..Len(background'[i].block.items) :
                        database[background'[i].block.items[k].id].section # Rejected
       /\ \A id \in TaskIds :
             /\ (MainRuns("accepted", id) /\ InList(tasks, id))
                  => ShownAs(tasks', id, Accepted)
             /\ MainRuns("rejected", id) => ~InList(tasks', id)]_vars

\* After the launch the user has accepted the first row, rejected the
\* second and selected the project again: the list read last shows the
\* first row as accepted and leaves out the second, as the table stores them.
C22_Witness ==
    /\ clicks = MaxClicks
    /\ background = <<>>
    /\ mainQueue = <<>>
    /\ ListShown
    /\ selectedProject = "alpha"
    /\ database[1].section = Accepted
    /\ database[2].section = Rejected
    /\ tasks = <<AgentTaskItem(1, "alpha", Accepted)>>

\* C23: through every interleaving of the user's actions and the
\* background work, an item's stored section only ever leaves the pending
\* one: it never goes from accepted to rejected nor from rejected to
\* accepted.
C23_SectionsOnlyLeavePending ==
    [][\A id \in TaskIds :
          database'[id].section # database[id].section
              => database[id].section = Pending]_vars

\* C29: whenever no load is in progress and no error is shown, the
\* displayed tasks all belong to the selected project.
C29_ShownTasksOfSelectedProject ==
    ListShown => \A k \in 1..Len(tasks) : tasks[k].projectName = selectedProject

\* An accept or reject of the item is still on its way: on the global
\* queue, or as a block waiting on the main queue (a failed one among them).
Outstanding(id) ==
    \/ \E i \in 1..Len(background) :
          /\ background[i].kind \in {"accept", "reject"}
          /\ background[i].task.id = id
    \/ \E k \in 1..Len(mainQueue) :
          \/ mainQueue[k].kind = "updateFailed"
          \/ mainQueue[k].kind \in {"accepted", "rejected"} /\ mainQueue[k].task.id = id

\* A load is still on its way.
Loading ==
    \/ \E i \in 1..Len(background) : background[i].kind \in {"loadInitial", "reloadTasks"}
    \/ \E k \in 1..Len(mainQueue) : mainQueue[k].kind \in {"loaded", "reloaded", "loadFailed"}

\* C30: once every accept and reject on an item of the shown project has
\* completed without error (and no load is on its way), the view agrees
\* with the table: the item is shown as accepted exactly when its stored
\* section is the accepted one, and is absent from the list exactly when
\* its stored section is the rejected one.
C30_ViewAgreesWithDatabase ==
    \A id \in TaskIds :
        (/\ clicks > 0
         /\ ListShown
         /\ ~Loading
         /\ ~Outstanding(id)
         /\ \A k \in 1..Len(tasks) : tasks[k].projectName = selectedProject
         /\ database[id].project_name = selectedProject)
        => /\ ShownAs(tasks, id, Accepted) <=> database[id].section = Accepted
           /\ ~InList(tasks, id) <=> database[id].section = Rejected

====
